---- MODULE Spec2Model ----
(***************************************************************************)
(* Transfer orchestration of the cross-chain token sender: the form's      *)
(* handleTransfer (src/components/TransferForm.tsx) driving                *)
(* OFTClient.sendTokens (src/lib/oft-client.ts) against a chain whose      *)
(* reads and transactions can fail.                                        *)
(*                                                                         *)
(* Library facts used (ethers v6, the only major version that has          *)
(* BrowserProvider and a top-level parseUnits):                            *)
(*  - uint256 results are JavaScript bigints; a bigint has no method lt;   *)
(*  - a TransactionReceipt carries its transaction hash in the field       *)
(*    `hash`; it has no field `transactionHash`;                           *)
(*  - parseUnits throws when the string has more fractional digits than    *)
(*    the requested decimals;                                              *)
(*  - wait() throws when the transaction reverted.                         *)
(***************************************************************************)
EXTENDS Integers, Sequences, FiniteSets, TLC

\* ------------------------------------------------------------------ bounds
MaxAttempts == 2
MaxExternal == 1

\* --------------------------------------------------------- decimal strings
\* A decimal string "w.f" is the record [w |-> whole part, f |-> digits].
\* The empty string '' of an unfilled field (falsy in JavaScript).
Absent == [w |-> 0 - 1, f |-> << >>]
A_one == [w |-> 1, f |-> << >>]
A_milli == [w |-> 0, f |-> <<0, 0, 1>>]

RECURSIVE Pow10(_)
Pow10(n) == IF n = 0 THEN 1 ELSE 10 * Pow10(n - 1)

RECURSIVE DigitsValue(_)
DigitsValue(ds) ==
    IF ds = << >> THEN 0
    ELSE 10 * DigitsValue(SubSeq(ds, 1, Len(ds) - 1)) + ds[Len(ds)]

\* ethers.parseUnits(value, decimals): base units, or a throw on underflow.
parseUnits(a, d) ==
    IF Len(a.f) > d
    THEN [ok |-> FALSE, v |-> 0]
    ELSE [ok |-> TRUE,
          v |-> a.w * Pow10(d) + DigitsValue(a.f) * Pow10(d - Len(a.f))]

\* parseFloat(amount) > 0 of the form's field check.
parseFloatPositive(a) == a.w > 0 \/ DigitsValue(a.f) > 0

\* ------------------------------------------------------------ chain facts
DefaultDecimals == 6
\* quoteSend results (nativeFee, lzTokenFee) the adapter may report.
FeeValues == {<<0, 0>>, <<2, 1>>}
SignerAddress == "0xCaller"
TxHashValue == "0xabc"
NoFee == <<0 - 1, 0 - 1>>


\* A fallback that skips the adapter's own decimals.
GetOFTConfigDecimalsTwoTier(tokenRead, adapterRead) ==
    IF tokenRead.ok THEN tokenRead.v ELSE DefaultDecimals

\* getOFTConfig, lines 74-84: token decimals, else adapter decimals, else 6.
GetOFTConfigDecimals(tokenRead, adapterRead) ==
    IF tokenRead.ok THEN tokenRead.v
    ELSE IF adapterRead.ok THEN adapterRead.v
    ELSE DefaultDecimals

\* getOFTConfig, lines 86-91: approvalRequired, false when the read fails.
GetOFTConfigApproval(read) == IF read.ok THEN read.v ELSE FALSE

\* handleApproval line 124: currentAllowance.lt(amountUnits) on a bigint.
\* The property lookup yields undefined and the call raises a TypeError.
BigintLt(a, b) == [ok |-> FALSE, v |-> FALSE]

\* getLayerZeroScanLink: `${baseUrl}/tx/${txHash}` as its three parts.
MainnetBase == "https://layerzeroscan.com"
TestnetBase == "https://testnet.layerzeroscan.com"
getLayerZeroScanLink(txHash, isTestnet) ==
    <<IF isTestnet THEN TestnetBase ELSE MainnetBase, "/tx/", txHash>>

\* A testnet range that takes 50000 in.
IsTestnetEidInclusive(srcEid) == srcEid >= 40000 /\ srcEid <= 50000

\* sendTokens line 587: the testnet flag of the source endpoint id.
IsTestnetEid(srcEid) == srcEid >= 40000 /\ srcEid < 50000

\* A receipt as tx.wait() returns it.
Receipt(h) == [hash |-> h, status |-> 1]
\* sendTokens line 586: const txHash = receipt.transactionHash, a property
\* read that gives undefined when the receipt has no such property.
ReceiptTxHash(receipt) ==
    IF "transactionHash" \in DOMAIN receipt THEN receipt["transactionHash"]
    ELSE "undefined"

\* ---------------------------------------------------------------- recipient
\* An address string, by what the format checks look at: whether it starts
\* with 0x, and its length.
ValidTo == [prefix |-> TRUE, len |-> 42]
Recipients ==
    {ValidTo, [prefix |-> TRUE, len |-> 40], [prefix |-> FALSE, len |-> 42]}
\* to.startsWith('0x') && to.length === 42
RecipientWellFormed(to) == to.prefix /\ to.len = 42

\* ------------------------------------------------- validateTransactionParams
E_DstEid == "Invalid destination EID: must be positive"
E_Recipient == "Invalid recipient address format"
E_Amount == "Invalid amount: must be greater than 0"
E_MinAmount == "Min amount cannot be greater than amount"
E_NativeFee == "Invalid native fee: must be greater than 0"
E_DstUnsupported == "OFT adapter does not support destination network"
E_ProbeUnavailable == "Could not validate OFT adapter support"
E_TokenBalance == "Insufficient token balance"
E_Allowance == "Insufficient allowance"
E_TokenUnread == "Could not check token balance/allowance"
E_NativeBalance == "Insufficient ETH for fees"
E_NativeUnread == "Could not check ETH balance"


Push(errors, cond, e) == IF cond THEN Append(errors, e) ELSE errors

\* The checks on the arguments without the one on minAmount.
ValidateArgsNoMin(dstEid, to, amountUnits, minAmountUnits, nativeFee) ==
    LET e1 == Push(<< >>, dstEid <= 0, E_DstEid)
        e2 == Push(e1, ~RecipientWellFormed(to), E_Recipient)
        e3 == Push(e2, amountUnits <= 0, E_Amount)
    IN  Push(e3, nativeFee <= 0, E_NativeFee)

\* Lines 628-651: the five checks on the arguments.
ValidateArgs(dstEid, to, amountUnits, minAmountUnits, nativeFee) ==
    LET e1 == Push(<< >>, dstEid <= 0, E_DstEid)
        e2 == Push(e1, ~RecipientWellFormed(to), E_Recipient)
        e3 == Push(e2, amountUnits <= 0, E_Amount)
        e4 == Push(e3, minAmountUnits > amountUnits, E_MinAmount)
    IN  Push(e4, nativeFee <= 0, E_NativeFee)

\* Lines 653-681: the probe quote for the destination.
ValidateProbe(errors, probe) ==
    IF probe = "rejected" THEN Append(errors, E_DstUnsupported)
    ELSE IF probe = "noSigner" THEN Append(errors, E_ProbeUnavailable)
    ELSE errors

\* A validator that stops at the first finding.
ValidateTokenFailFast(errors, amountUnits, cfgRead, balRead, allowRead) ==
    IF errors # << >> THEN errors
    ELSE IF cfgRead.ok /\ balRead.ok /\ allowRead.ok
    THEN Push(Push(errors, balRead.v < amountUnits, E_TokenBalance),
              allowRead.v < amountUnits, E_Allowance)
    ELSE Append(errors, E_TokenUnread)

\* Lines 683-716: token balance and allowance, read inside one try block.
ValidateToken(errors, amountUnits, cfgRead, balRead, allowRead) ==
    IF cfgRead.ok /\ balRead.ok /\ allowRead.ok
    THEN Push(Push(errors, balRead.v < amountUnits, E_TokenBalance),
              allowRead.v < amountUnits, E_Allowance)
    ELSE Append(errors, E_TokenUnread)

\* Lines 718-735: native balance against the fee.
ValidateNative(errors, nativeFee, nativeRead) ==
    IF nativeRead.ok
    THEN Push(errors, nativeRead.v < nativeFee, E_NativeBalance)
    ELSE Append(errors, E_NativeUnread)

\* validateTransactionParams: the list of errors, in the order of the checks.
validateTransactionParams(dstEid, to, amountUnits, minAmountUnits, nativeFee, probe, cfgRead, balRead, allowRead, nativeRead) ==
    ValidateNative(
        ValidateToken(
            ValidateProbe(
                ValidateArgs(dstEid, to, amountUnits, minAmountUnits,
                             nativeFee),
                probe),
            amountUnits, cfgRead, balRead, allowRead),
        nativeFee, nativeRead)

\* A guard that lets every report through.
ValidationNeverBlocks(errors) == FALSE

\* sendTokens lines 368-372: the guard on the validation report.
ValidationBlocks(errors) == errors # << >>

\* A guard that lets every balance through.
NativeNeverBlocks(balance, nativeFee) == FALSE

\* sendTokens line 410: the guard on the native balance.
NativeBlocks(balance, nativeFee) == balance < nativeFee

\* ------------------------------------------------------------ buildOptions
\* The option lists are string[]: a numeric string is the sequence of its
\* decimal digits, '' is the empty sequence, and reading past the end of
\* an array gives undefined.
UndefinedItem == <<0 - 1>>
NaN == 0 - 1
At(list, i) == IF i \in DOMAIN list THEN list[i] ELSE UndefinedItem
\* Number(x), and Number(x) || 0.
JsNumber(x) == IF x = UndefinedItem THEN NaN ELSE DigitsValue(x)
OrZero(n) == IF n = NaN THEN 0 ELSE n

\* BigInt('340282366920938463463374607431768211455'), line 183, which is
\* also the bound the options library puts on a native drop amount.
MaxUint128 ==
    <<3, 4, 0, 2, 8, 2, 3, 6, 6, 9, 2, 0, 9, 3, 8, 4, 6, 3, 4, 6, 3, 3, 7,
      4, 6, 0, 7, 4, 3, 1, 7, 6, 8, 2, 1, 1, 4, 5, 5>>

\* a > b for two numeric strings without leading zeros.
RECURSIVE DecGt(_, _)
DecGt(a, b) ==
    IF Len(a) # Len(b) THEN Len(a) > Len(b)
    ELSE IF a = << >> THEN FALSE
    ELSE IF Head(a) # Head(b) THEN Head(a) > Head(b)
    ELSE DecGt(Tail(a), Tail(b))

\* A drop amount the library refuses.
ExceedsUnbounded(amount) == FALSE

\* addExecutorNativeDropOption throws on an amount above uint128.
ExceedsUint128(amount) == DecGt(amount, MaxUint128)

\* The error messages of buildOptions.
E_LzReceivePairs == "Invalid lzReceive options: expected pairs of gas,value"
E_ComposeTriplets == "Invalid lzCompose options: expected triplets of index,gas,value"
E_NativeDropPairs == "Invalid native drop options: expected pairs of amount,recipient"
E_NativeDropFailed == "Failed to add native drop option: uint128 maximum"
E_Library == "options library error"
Built(blob) == [ok |-> TRUE, blob |-> blob, error |-> "none", max |-> << >>]
Failed(e, max) == [ok |-> FALSE, blob |-> << >>, error |-> e, max |-> max]

\* A builder that starts from what an earlier call left behind.
KeptOptions(before) == before

\* Line 138: Options.newOptions(), whatever was built before.
NewOptions(before) == << >>

\* An option added in front of the blob.
AddOptionFront(blob, opt) == <<opt>> \o blob

\* options.addExecutor...Option(...): the option goes to the end.
AddOption(blob, opt) == Append(blob, opt)

RECURSIVE AddAll(_, _)
AddAll(blob, opts) ==
    IF opts = << >> THEN blob
    ELSE AddAll(AddOption(blob, Head(opts)), Tail(opts))

\* An arity check that lets every compose list through.
ArityOkExceptCompose(len, k) == k = 3 \/ len % k = 0

\* Lines 142, 155, 169: length % k !== 0 throws.
ArityOk(len, k) == len % k = 0

\* The number of rounds of `for (i = 0; i < length; i += k)`.
Rounds(len, k) == (len + k - 1) \div k

\* Lines 141-151: the lzReceive options.
LzReceiveOptions(list) ==
    [j \in 1..Rounds(Len(list), 2) |->
        [type |-> "lzReceive", index |-> 0,
         gas |-> JsNumber(At(list, 2 * j - 1)),
         value |-> OrZero(JsNumber(At(list, 2 * j))),
         amount |-> << >>, receiver |-> ""]]
AddLzReceive(blob, list) ==
    IF ~ArityOk(Len(list), 2) THEN Failed(E_LzReceivePairs, << >>)
    ELSE IF \E j \in DOMAIN LzReceiveOptions(list) :
               LzReceiveOptions(list)[j].gas = NaN
    THEN Failed(E_Library, << >>)
    ELSE Built(AddAll(blob, LzReceiveOptions(list)))

\* Lines 154-166: the compose options.
ComposeOptions(list) ==
    [j \in 1..Rounds(Len(list), 3) |->
        [type |-> "compose",
         index |-> JsNumber(At(list, 3 * j - 2)),
         gas |-> JsNumber(At(list, 3 * j - 1)),
         value |-> OrZero(JsNumber(At(list, 3 * j))),
         amount |-> << >>, receiver |-> ""]]
AddCompose(blob, list) ==
    IF ~ArityOk(Len(list), 3) THEN Failed(E_ComposeTriplets, << >>)
    ELSE IF \E j \in DOMAIN ComposeOptions(list) :
               \/ ComposeOptions(list)[j].gas = NaN
               \/ ComposeOptions(list)[j].index = NaN
    THEN Failed(E_Library, << >>)
    ELSE Built(AddAll(blob, ComposeOptions(list)))

\* Lines 173-194: one native drop pair; the error it raises, if any.
NativeDropError(list, j) ==
    IF At(list, 2 * j - 1) = << >> \/ At(list, 2 * j) = ""
    THEN "Invalid native drop option: Both amount and recipient must be provided"
    ELSE IF ExceedsUint128(At(list, 2 * j - 1))
    THEN E_NativeDropFailed
    ELSE "none"
NativeDropOptions(list) ==
    [j \in 1..Rounds(Len(list), 2) |->
        [type |-> "nativeDrop", index |-> 0, gas |-> 0, value |-> 0,
         amount |-> At(list, 2 * j - 1), receiver |-> At(list, 2 * j)]]
\* Lines 168-195: the loop stops at the first pair that throws; the error
\* of a refused amount quotes maxUint128.
AddNativeDrop(blob, list) ==
    IF ~ArityOk(Len(list), 2) THEN Failed(E_NativeDropPairs, << >>)
    ELSE LET bad == {j \in 1..Rounds(Len(list), 2) :
                        NativeDropError(list, j) # "none"}
             first == CHOOSE j \in bad : \A k \in bad : j <= k
         IN  IF bad = {} THEN Built(AddAll(blob, NativeDropOptions(list)))
             ELSE Failed(NativeDropError(list, first),
                         IF NativeDropError(list, first) = E_NativeDropFailed
                         THEN MaxUint128 ELSE << >>)

\* buildOptions, lines 137-198: args with its three lists, and the blob an
\* earlier call on the client returned.
buildOptions(args, before) ==
    LET r1 == AddLzReceive(NewOptions(before), args.lz)
        r2 == IF r1.ok THEN AddCompose(r1.blob, args.compose) ELSE r1
    IN  IF r2.ok THEN AddNativeDrop(r2.blob, args.nd) ELSE r2

\* -------------------------------------------------------------------- state
VARIABLES
    calm,            \* environment: no call fails, nobody else touches the chain
    allowance,       \* chain: allowance(owner = signer, spender = adapter)
    tokenBalance,    \* chain: the signer's balance of the underlying token
    nativeBalance,   \* chain: the signer's native balance
    approvalRequired,\* chain: what the adapter's approvalRequired() returns
    tokenDecimals,   \* chain: decimals() of the underlying token
    srcEid,          \* endpoint id of the wallet's network
    externals,       \* number of changes made to the chain by other parties
    tokenInfo,       \* form state: token metadata, or not loaded
    approvalStatus,  \* form state
    loading,         \* form state
    quote,           \* form state: the quote on display, NoFee when none
    attempts,        \* number of handleTransfer calls so far
    pc,              \* position of the running handleTransfer / sendTokens
    amount,          \* transferData.amount of the running attempt
    minAmount,       \* transferData.minAmount of the running attempt
    to,              \* transferData.to of the running attempt
    startAllowance,  \* the allowance on chain when the attempt began
    oftDecimals,     \* sendTokens: oftConfig.decimals
    amountUnits,     \* sendTokens: amountUnits
    minAmountUnits,  \* sendTokens: minAmountUnits
    msgFee,          \* sendTokens: msgFee, NoFee before the quote
    quotedParam,     \* the sendParam amounts of the quoteSend call
    validation,      \* sendTokens: validation.errors
    validated,       \* validateTransactionParams has returned
    nativeSeen,      \* sendTokens: balance read on line 403, -1 before
    estimateArgs,    \* arguments of the estimateGas call, txs-shaped
    txs,             \* transactions submitted in the running attempt
    err,             \* the error on its way to the form's catch
    result,          \* what sendTokens returned
    reported,        \* the onTransfer / onError call of the latest attempt
    cycleFailed,     \* the form's approval cycle ended in `failed`
    declined,        \* the user declined a signing prompt of the attempt
    call             \* a single call of a pure function: input and output

chainVars == <<calm, allowance, tokenBalance, nativeBalance, approvalRequired,
               tokenDecimals, srcEid, externals>>
formVars == <<tokenInfo, approvalStatus, loading, quote, attempts>>
argVars == <<amount, minAmount, to, startAllowance>>
sendVars == <<oftDecimals, amountUnits, minAmountUnits, msgFee, quotedParam,
              validation, validated, nativeSeen, estimateArgs, result>>
histVars == <<txs, err, reported, cycleFailed, declined>>
vars == <<chainVars, formVars, argVars, sendVars, histVars, pc, call>>

\* What the environment may answer.  A chain read fails or returns the
\* value on chain; a prompt is signed or declined; a call succeeds or not.
ReadOutcomes(v) ==
    IF calm THEN {[ok |-> TRUE, v |-> v]}
    ELSE {[ok |-> FALSE, v |-> v], [ok |-> TRUE, v |-> v]}
Oks == IF calm THEN {TRUE} ELSE BOOLEAN

DstEid == 30109
NoTokenInfo == [present |-> FALSE, decimals |-> 0]
TokenInfo(d) == [present |-> TRUE, decimals |-> d]
NoTx == [kind |-> "none", by |-> "none", amountLD |-> 0, minAmountLD |-> 0,
         fee |-> NoFee, value |-> 0, refund |-> "none", allowBefore |-> 0]
NoResult == [txHash |-> "none", scanLink |-> << >>]
\* An Error: its message, and the validation report the message carries.
Err(m) == [msg |-> m, report |-> << >>]
NoErr == Err("none")
NoReport == [kind |-> "none", msg |-> "none", result |-> NoResult]

ApproveTx(by, amt, before) ==
    [NoTx EXCEPT !.kind = "approve", !.by = by, !.amountLD = amt,
                 !.allowBefore = before]

Sends == SelectSeq(txs, LAMBDA t : t.kind = "send")

Init ==
    /\ calm \in BOOLEAN
    /\ allowance \in {0, 100}
    /\ tokenBalance \in {200}
    /\ nativeBalance \in {3}
    /\ approvalRequired \in BOOLEAN
    /\ tokenDecimals \in {2}
    /\ srcEid \in {30101}
    /\ externals = 0
    /\ tokenInfo \in {TokenInfo(tokenDecimals)}
                      \cup (IF calm THEN {} ELSE {NoTokenInfo})
    /\ approvalStatus = "none"
    /\ loading = FALSE
    /\ quote = NoFee
    /\ attempts = 0
    /\ pc = "idle"
    /\ amount = A_one
    /\ minAmount = Absent
    /\ to = ValidTo
    /\ startAllowance = allowance
    /\ oftDecimals = 0
    /\ amountUnits = 0
    /\ minAmountUnits = 0
    /\ msgFee = NoFee
    /\ quotedParam = <<0, 0>>
    /\ validation = << >>
    /\ validated = FALSE
    /\ nativeSeen = 0 - 1
    /\ estimateArgs = NoTx
    /\ txs = << >>
    /\ err = NoErr
    /\ result = NoResult
    /\ reported = NoReport
    /\ cycleFailed = FALSE
    /\ declined = FALSE
    /\ call = [fn |-> "none", done |-> TRUE]

\* The locals of sendTokens and the history of the attempt once
\* handleTransfer has returned, as the next attempt finds them.
ResetAttempt ==
    /\ oftDecimals' = 0
    /\ amountUnits' = 0
    /\ minAmountUnits' = 0
    /\ msgFee' = NoFee
    /\ quotedParam' = <<0, 0>>
    /\ validation' = << >>
    /\ validated' = FALSE
    /\ nativeSeen' = 0 - 1
    /\ estimateArgs' = NoTx
    /\ txs' = << >>
    /\ err' = NoErr
    /\ result' = NoResult
    /\ cycleFailed' = FALSE
    /\ declined' = FALSE

\* ------------------------------------------------------------ environment
\* While an attempt runs, another party (a second wallet session, another
\* application) spends the signer's native currency or tokens, or lowers
\* the allowance.
ChainExternalChange ==
    /\ ~calm
    /\ pc # "idle"
    /\ externals < MaxExternal
    /\ externals' = externals + 1
    /\ \/ /\ nativeBalance > 0
          /\ nativeBalance' = 0
          /\ UNCHANGED <<allowance, tokenBalance>>
       \/ /\ tokenBalance > 0
          /\ tokenBalance' = 0
          /\ UNCHANGED <<allowance, nativeBalance>>
       \/ /\ allowance > 0
          /\ allowance' = 0
          /\ UNCHANGED <<tokenBalance, nativeBalance>>
    /\ UNCHANGED call
    /\ UNCHANGED <<calm, approvalRequired, tokenDecimals, srcEid, formVars, argVars,
                   sendVars, txs, err, reported, cycleFailed, declined, pc>>

\* ------------------------------------------------------- form, when idle
\* An onError that reports a fixed message whatever was thrown.
OnErrorGeneric(e) ==
    [kind |-> "error", msg |-> "Transfer failed", result |-> NoResult]

\* onError(error.message) and onTransfer(result), lines 668 and 636.
OnError(e) == [kind |-> "error", msg |-> e.msg, result |-> NoResult]
OnTransfer(r) == [kind |-> "transfer", msg |-> "none", result |-> r]

\* handleInputChange on the adapter address field, lines 293-328: a known
\* adapter keeps the approval status, an unknown address resets it, and
\* both fetch the token metadata.
HandleInputChange ==
    /\ pc = "idle"
    /\ \E known \in BOOLEAN, ok \in Oks :
          /\ tokenInfo' = IF ok THEN TokenInfo(tokenDecimals)
                          ELSE NoTokenInfo
          /\ approvalStatus' = IF known THEN approvalStatus ELSE "none"
    /\ UNCHANGED call
    /\ UNCHANGED <<chainVars, loading, quote, attempts, argVars, sendVars,
                   histVars, pc>>

\* getQuote, lines 413-473: the quote on display.
GetQuote ==
    /\ pc = "idle"
    /\ \E ok \in Oks, fee \in FeeValues, info \in Oks :
          IF ok
          THEN /\ quote' = fee
               /\ tokenInfo' = IF info THEN TokenInfo(tokenDecimals)
                               ELSE tokenInfo
               /\ UNCHANGED reported
          ELSE /\ quote' = NoFee
               /\ reported' = OnError(Err("Failed to get quote"))
               /\ UNCHANGED tokenInfo
    /\ UNCHANGED call
    /\ UNCHANGED <<chainVars, approvalStatus, loading, attempts, argVars,
                   sendVars, txs, err, cycleFailed, declined, pc>>

\* ------------------------------------------------- form, handleTransfer
\* Lines 475-502: the field checks, then setLoading(true).
HandleTransferStart ==
    /\ pc = "idle"
    /\ ~loading
    /\ attempts < MaxAttempts
    /\ attempts' = attempts + 1
    /\ \E a \in {[w |-> 0, f |-> << >>], A_one, A_milli},
          m \in {Absent, A_one, [w |-> 2, f |-> << >>]},
          t \in Recipients :
          IF ~RecipientWellFormed(t)
          THEN /\ reported' = OnError(Err("Invalid recipient address format"))
               /\ UNCHANGED <<loading, pc, argVars>>
          ELSE IF ~parseFloatPositive(a)
          THEN /\ reported' = OnError(Err("Invalid amount"))
               /\ UNCHANGED <<loading, pc, argVars>>
          ELSE /\ amount' = a
               /\ minAmount' = m
               /\ to' = t
               /\ startAllowance' = allowance
               /\ loading' = TRUE
               /\ pc' = "preflight"
               /\ reported' = NoReport
    /\ UNCHANGED call
    /\ UNCHANGED <<chainVars, tokenInfo, approvalStatus, quote, sendVars,
                   txs, err, cycleFailed, declined>>

\* Lines 504-566: validateOFTAdapter, checkNetworkCompatibility,
\* checkOFTAdapterSupport, getCurrentSrcEid and the signer's balance; any
\* failure goes to the catch on line 638.
Preflight ==
    /\ pc = "preflight"
    /\ \E ok \in Oks :
          IF ok
          THEN /\ pc' = IF tokenInfo.present THEN "f_balance" ELSE "st_start"
               /\ UNCHANGED err
          ELSE /\ pc' = "f_catch"
               /\ err' = Err("preflight")
    /\ UNCHANGED call
    /\ UNCHANGED <<chainVars, formVars, argVars, sendVars, txs, reported,
                   cycleFailed, declined>>

\* Lines 569-589: balanceOf and allowance reads and the balance check; a
\* throw lands in the catch on line 618, which only logs.
FormTokenBalance ==
    /\ pc = "f_balance"
    /\ \E balRead \in ReadOutcomes(tokenBalance),
          allowRead \in ReadOutcomes(allowance) :
          LET amountToSend == parseUnits(amount, tokenInfo.decimals)
              readsOk == balRead.ok /\ allowRead.ok
          IN  pc' = IF readsOk /\ amountToSend.ok
                       /\ ~(balRead.v < amountToSend.v)
                    THEN "f_check" ELSE "st_start"
    /\ UNCHANGED call
    /\ UNCHANGED <<chainVars, formVars, argVars, sendVars, txs, err, reported,
                   cycleFailed, declined>>

\* checkAndHandleApproval, line 216.
CheckAllowanceStart ==
    /\ pc = "f_check"
    /\ approvalStatus' = "checking"
    /\ pc' = "f_check_read"
    /\ UNCHANGED call
    /\ UNCHANGED <<chainVars, tokenInfo, loading, quote, attempts, argVars,
                   sendVars, histVars>>

\* A comparison that finds every allowance sufficient.
AllowanceAlwaysCovers(currentAllowance, amountToSend) == TRUE

\* checkAndHandleApproval line 233: the allowance covers the amount.
AllowanceCovers(currentAllowance, amountToSend) ==
    currentAllowance >= amountToSend

\* checkAndHandleApproval, lines 219-246, and the caller's branch on its
\* result (line 599): true goes on to sendTokens, false to handleApproval.
CheckAllowanceRead ==
    /\ pc = "f_check_read"
    /\ \E read \in ReadOutcomes(allowance) :
          LET amountToSend == parseUnits(amount, tokenInfo.decimals)
          IN  IF read.ok /\ amountToSend.ok
              THEN IF AllowanceCovers(read.v, amountToSend.v)
                   THEN /\ approvalStatus' = "approved"
                        /\ pc' = "st_start"
                   ELSE /\ approvalStatus' = "needed"
                        /\ pc' = "f_approve"
              ELSE /\ approvalStatus' = "failed"
                   /\ pc' = "f_approve"
    /\ UNCHANGED call
    /\ UNCHANGED <<chainVars, tokenInfo, loading, quote, attempts, argVars,
                   sendVars, txs, err, reported, cycleFailed, declined>>

\* handleApproval (form), line 250.
ApprovalStart ==
    /\ pc = "f_approve"
    /\ approvalStatus' = "approving"
    /\ pc' = "f_approve_tx"
    /\ UNCHANGED call
    /\ UNCHANGED <<chainVars, tokenInfo, loading, quote, attempts, argVars,
                   sendVars, histVars>>

\* The form's approval cycle ended in `failed`: handleApproval returns
\* false, line 611 throws, and the catch on line 618 logs the error; the
\* flow continues on line 623.
ApprovalFails ==
    /\ approvalStatus' = "failed"
    /\ cycleFailed' = TRUE
    /\ pc' = "st_start"

\* handleApproval (form), lines 254-266: the approve transaction.
ApprovalSubmit ==
    /\ pc = "f_approve_tx"
    /\ \E signed \in Oks :
          LET amountToSend == parseUnits(amount, tokenInfo.decimals)
          IN  /\ IF signed /\ amountToSend.ok
                 THEN /\ txs' = Append(txs, ApproveTx("form",
                                            amountToSend.v, allowance))
                      /\ pc' = "f_approve_wait"
                      /\ UNCHANGED <<approvalStatus, cycleFailed>>
                 ELSE /\ ApprovalFails
                      /\ UNCHANGED txs
              /\ declined' = (declined \/ (amountToSend.ok /\ ~signed))
    /\ UNCHANGED call
    /\ UNCHANGED <<chainVars, tokenInfo, loading, quote, attempts, argVars,
                   sendVars, err, reported>>

\* What awaiting a submitted transaction can bring:
\*   mined      it took effect and wait() returned the receipt
\*   noEffect   it was mined and left the allowance as it was
\*   reverted   it was mined as failed and wait() threw
\*   lostMined  wait() threw (connection) although it took effect
\*   lost       wait() threw and it never took effect
WaitOutcomes ==
    IF calm THEN {"mined"}
    ELSE {"mined", "noEffect", "reverted", "lostMined", "lost"}
TookEffect(o) == o \in {"mined", "lostMined"}
WaitReturned(o) == o \in {"mined", "noEffect"}

\* handleApproval (form), line 270: await approveTx.wait().
ApprovalWait ==
    /\ pc = "f_approve_wait"
    /\ \E o \in WaitOutcomes :
          /\ allowance' = IF TookEffect(o) THEN txs[Len(txs)].amountLD
                          ELSE allowance
          /\ IF WaitReturned(o)
             THEN /\ pc' = "f_reread"
                  /\ UNCHANGED <<approvalStatus, cycleFailed>>
             ELSE ApprovalFails
    /\ UNCHANGED <<call, declined>>
    /\ UNCHANGED <<tokenBalance, nativeBalance, calm, approvalRequired,
                   tokenDecimals, srcEid, externals, tokenInfo, loading,
                   quote, attempts, argVars, sendVars, txs, err, reported>>

\* handleApproval (form), lines 274-285: the allowance is read again.
ApprovalReread ==
    /\ pc = "f_reread"
    /\ \E read \in ReadOutcomes(allowance) :
          LET amountToSend == parseUnits(amount, tokenInfo.decimals)
          IN  IF read.ok /\ AllowanceCovers(read.v, amountToSend.v)
              THEN /\ approvalStatus' = "approved"
                   /\ pc' = "st_start"
                   /\ UNCHANGED cycleFailed
              ELSE ApprovalFails
    /\ UNCHANGED <<call, declined>>
    /\ UNCHANGED <<chainVars, tokenInfo, loading, quote, attempts, argVars,
                   sendVars, txs, err, reported>>

\* ------------------------------------------------- OFTClient.sendTokens
\* Endpoint ids of the chain-id table of getCurrentSrcEid, all of them EVM.
EvmEids == {30101, 30102, 30109, 30106, 30110, 30111, 30112, 40161, 40102}
\* A chain family check that takes every endpoint id for EVM.
IsEvmEidAny(eid) == TRUE

\* endpointIdToChainType(eid) === ChainType.EVM, lines 204 and 325.
IsEvmEid(eid) == eid \in EvmEids

\* getCurrentSrcEid, lines 834-844: the chain-id table.
ChainIdToEid ==
    (1 :> 30101) @@ (56 :> 30102) @@ (137 :> 30109) @@ (43114 :> 30106)
    @@ (42161 :> 30110) @@ (10 :> 30111) @@ (250 :> 30112)
    @@ (11155111 :> 40161) @@ (97 :> 40102)
E_UnsupportedNetwork == "Unsupported network with chainId"

\* A lookup that falls back to Ethereum for an unknown chain id.
getCurrentSrcEidDefault(chainId) ==
    [ok |-> TRUE,
     eid |-> IF chainId \in DOMAIN ChainIdToEid THEN ChainIdToEid[chainId]
             ELSE 30101,
     error |-> "none", named |-> 0]

\* getCurrentSrcEid, lines 830-852, given the wallet's chain id.
getCurrentSrcEid(chainId) ==
    IF chainId \in DOMAIN ChainIdToEid
    THEN [ok |-> TRUE, eid |-> ChainIdToEid[chainId], error |-> "none",
          named |-> 0]
    ELSE [ok |-> FALSE, eid |-> 0, error |-> E_UnsupportedNetwork,
          named |-> chainId]

Throw(e) ==
    /\ err' = Err(e)
    /\ pc' = "f_catch"

\* Lines 325-330: the chain family of the source endpoint id.
SendTokensStart ==
    /\ pc = "st_start"
    /\ IF IsEvmEid(srcEid)
       THEN /\ pc' = "st_config"
            /\ UNCHANGED err
       ELSE Throw("non-EVM srcEid not supported")
    /\ UNCHANGED call
    /\ UNCHANGED <<chainVars, formVars, argVars, sendVars, txs, reported,
                   cycleFailed, declined>>

\* Line 332: getOFTConfig (lines 53-103).
SendTokensConfig ==
    /\ pc = "st_config"
    /\ \E ok \in Oks, tokenRead \in ReadOutcomes(tokenDecimals),
          adapterRead \in ReadOutcomes(tokenDecimals) :
          IF ok
          THEN /\ oftDecimals' = GetOFTConfigDecimals(tokenRead, adapterRead)
               /\ pc' = "st_approval"
               /\ UNCHANGED err
          ELSE /\ Throw("Failed to get OFT configuration")
               /\ UNCHANGED oftDecimals
    /\ UNCHANGED call
    /\ UNCHANGED <<chainVars, formVars, argVars, amountUnits, minAmountUnits,
                   msgFee, quotedParam, validation, validated, nativeSeen,
                   estimateArgs, result, txs, reported, cycleFailed, declined>>

\* OFTClient.handleApproval, lines 112-127: whether the approve call on
\* line 125 is reached.
ClientApprovalSubmits(requiredRead, allowRead, amt) ==
    /\ GetOFTConfigApproval(requiredRead)
    /\ allowRead.ok
    /\ amt.ok
    /\ BigintLt(allowRead.v, amt.v).ok
    /\ BigintLt(allowRead.v, amt.v).v

\* Line 337: OFTClient.handleApproval (lines 108-132); its catch swallows
\* every failure, of the reads, of the comparison and of the approval.
SendTokensApproval ==
    /\ pc = "st_approval"
    /\ \E requiredRead \in ReadOutcomes(approvalRequired),
          allowRead \in ReadOutcomes(allowance),
          signed \in Oks, o \in WaitOutcomes :
          LET amt == parseUnits(amount, oftDecimals)
              prompted == ClientApprovalSubmits(requiredRead, allowRead,
                                                amt)
          IN  /\ IF prompted /\ signed
                 THEN /\ txs' = Append(txs, ApproveTx("client", amt.v,
                                                      allowance))
                      /\ allowance' = IF TookEffect(o) THEN amt.v
                                      ELSE allowance
                 ELSE UNCHANGED <<txs, allowance>>
              /\ declined' = (declined \/ (prompted /\ ~signed))
    /\ pc' = "st_parse"
    /\ UNCHANGED call
    /\ UNCHANGED <<tokenBalance, nativeBalance, calm, approvalRequired,
                   tokenDecimals, srcEid, externals, formVars, argVars,
                   sendVars, err, reported, cycleFailed>>

\* A minimum that is 0 when no minAmount is given.
MinAmountUnitsZero(m, d, amt) ==
    IF m # Absent THEN parseUnits(m, d) ELSE [ok |-> TRUE, v |-> 0]

\* Lines 339-342: the amounts in base units; minAmount defaults to amount.
MinAmountUnits(m, d, amt) == IF m # Absent THEN parseUnits(m, d) ELSE amt

SendTokensParse ==
    /\ pc = "st_parse"
    /\ LET amt == parseUnits(amount, oftDecimals)
           min == MinAmountUnits(minAmount, oftDecimals, amt)
       IN  IF amt.ok /\ min.ok
           THEN /\ amountUnits' = amt.v
                /\ minAmountUnits' = min.v
                /\ pc' = "st_quote"
                /\ UNCHANGED err
           ELSE /\ Throw("parseUnits")
                /\ UNCHANGED <<amountUnits, minAmountUnits>>
    /\ UNCHANGED call
    /\ UNCHANGED <<chainVars, formVars, argVars, oftDecimals, msgFee,
                   quotedParam, validation, validated, nativeSeen,
                   estimateArgs, result, txs, reported, cycleFailed, declined>>

\* Line 359: this.quoteSend(args) (lines 203-319), which resolves the
\* config again and converts the amounts with the decimals it finds.
SendTokensQuote ==
    /\ pc = "st_quote"
    /\ \E ok \in Oks, fee \in FeeValues,
          tokenRead \in ReadOutcomes(tokenDecimals),
          adapterRead \in ReadOutcomes(tokenDecimals) :
          LET d == GetOFTConfigDecimals(tokenRead, adapterRead)
              amt == parseUnits(amount, d)
              min == MinAmountUnits(minAmount, d, amt)
          IN  IF ok /\ amt.ok /\ min.ok
              THEN /\ msgFee' = fee
                   /\ quotedParam' = <<amt.v, min.v>>
                   /\ pc' = "st_validate"
                   /\ UNCHANGED err
              ELSE /\ Throw("Failed to get quote")
                   /\ UNCHANGED <<msgFee, quotedParam>>
    /\ UNCHANGED call
    /\ UNCHANGED <<chainVars, formVars, argVars, oftDecimals, amountUnits,
                   minAmountUnits, validation, validated, nativeSeen,
                   estimateArgs, result, txs, reported, cycleFailed, declined>>

\* Lines 367-373: validateTransactionParams and the guard on its report.
SendTokensValidate ==
    /\ pc = "st_validate"
    /\ \E probe \in (IF calm THEN {"ok"} ELSE {"ok", "rejected", "noSigner"}),
          cfgRead \in ReadOutcomes(0),
          balRead \in ReadOutcomes(tokenBalance),
          allowRead \in ReadOutcomes(allowance),
          nativeRead \in ReadOutcomes(nativeBalance) :
          LET errors == validateTransactionParams(DstEid, to, amountUnits,
                            minAmountUnits, msgFee[1], probe, cfgRead,
                            balRead, allowRead, nativeRead)
          IN  /\ validation' = errors
              /\ validated' = TRUE
              /\ IF ValidationBlocks(errors)
                 THEN /\ err' = [msg |-> "Transaction validation failed",
                                  report |-> errors]
                      /\ pc' = "f_catch"
                 ELSE /\ pc' = "st_native"
                      /\ UNCHANGED err
    /\ UNCHANGED call
    /\ UNCHANGED <<chainVars, formVars, argVars, oftDecimals, amountUnits,
                   minAmountUnits, msgFee, quotedParam, nativeSeen,
                   estimateArgs, result, txs, reported, cycleFailed, declined>>

\* Lines 376-412: the signer's address and native balance, and the guard.
SendTokensNativeCheck ==
    /\ pc = "st_native"
    /\ \E read \in ReadOutcomes(nativeBalance) :
          IF read.ok
          THEN /\ nativeSeen' = read.v
               /\ IF NativeBlocks(read.v, msgFee[1])
                  THEN Throw("Insufficient ETH for fees")
                  ELSE /\ pc' = "st_reconfirm"
                       /\ UNCHANGED err
          ELSE /\ Throw("getBalance")
               /\ UNCHANGED nativeSeen
    /\ UNCHANGED call
    /\ UNCHANGED <<chainVars, formVars, argVars, oftDecimals, amountUnits,
                   minAmountUnits, msgFee, quotedParam, validation, validated,
                   estimateArgs, result, txs, reported, cycleFailed, declined>>

\* A re-confirmation whose failures end the run.
SendTokensReconfirmAborts ==
    /\ pc = "st_reconfirm"
    /\ \E balRead \in ReadOutcomes(tokenBalance),
          allowRead \in ReadOutcomes(allowance),
          decRead \in ReadOutcomes(tokenDecimals), signed \in Oks :
          LET readsOk == balRead.ok /\ allowRead.ok /\ decRead.ok
              approves == /\ readsOk
                          /\ ~(balRead.v < amountUnits)
                          /\ allowRead.v < amountUnits
          IN  /\ IF approves /\ signed
                 THEN /\ txs' = Append(txs, ApproveTx("sendTokens",
                                            amountUnits, allowance))
                      /\ pc' = "st_reapprove_wait"
                      /\ UNCHANGED err
                 ELSE IF readsOk /\ ~approves /\ ~(balRead.v < amountUnits)
                 THEN /\ pc' = "st_estimate"
                      /\ UNCHANGED <<txs, err>>
                 ELSE /\ Throw("Could not check token balance/allowance")
                      /\ UNCHANGED txs
              /\ declined' = (declined \/ (approves /\ ~signed))
    /\ UNCHANGED call
    /\ UNCHANGED <<chainVars, formVars, argVars, sendVars, reported,
                   cycleFailed>>

\* Lines 414-470: token balance and allowance are looked at once more; the
\* catch on line 466 logs whatever is thrown and the flow goes on.
SendTokensReconfirm ==
    /\ pc = "st_reconfirm"
    /\ \E balRead \in ReadOutcomes(tokenBalance),
          allowRead \in ReadOutcomes(allowance),
          decRead \in ReadOutcomes(tokenDecimals), signed \in Oks :
          LET readsOk == balRead.ok /\ allowRead.ok /\ decRead.ok
              approves == /\ readsOk
                          /\ ~(balRead.v < amountUnits)
                          /\ allowRead.v < amountUnits
          IN  /\ IF approves /\ signed
                 THEN /\ txs' = Append(txs, ApproveTx("sendTokens",
                                            amountUnits, allowance))
                      /\ pc' = "st_reapprove_wait"
                 ELSE /\ pc' = "st_estimate"
                      /\ UNCHANGED txs
              /\ declined' = (declined \/ (approves /\ ~signed))
    /\ UNCHANGED call
    /\ UNCHANGED <<chainVars, formVars, argVars, sendVars, err, reported,
                   cycleFailed>>

\* Lines 451-462: the approval is awaited and the allowance read again.
SendTokensReapproveWait ==
    /\ pc = "st_reapprove_wait"
    /\ \E o \in WaitOutcomes :
          allowance' = IF TookEffect(o) THEN amountUnits ELSE allowance
    /\ pc' = "st_estimate"
    /\ UNCHANGED call
    /\ UNCHANGED <<tokenBalance, nativeBalance, calm, approvalRequired,
                   tokenDecimals, srcEid, externals, formVars, argVars,
                   sendVars, txs, err, reported, cycleFailed, declined>>

\* A send that reuses the quote on display when there is one.
SendFeeDisplayed(fresh, displayed) ==
    IF displayed # NoFee THEN displayed ELSE fresh

\* The fee pair handed to send: the quote of this invocation (line 359);
\* the quote on display plays no part.
SendFee(fresh, displayed) == fresh
\* A value that adds the protocol-token fee.
SendValueBoth(fee) == fee[1] + fee[2]

\* The value sent along, lines 509 and 574.
SendValue(fee) == fee[1]

\* The arguments of oft.send, lines 559-576 (and of estimateGas, 494-511).
SendArgs ==
    [NoTx EXCEPT !.kind = "send", !.by = "sendTokens",
                 !.amountLD = amountUnits, !.minAmountLD = minAmountUnits,
                 !.fee = SendFee(msgFee, quote),
                 !.value = SendValue(SendFee(msgFee, quote)),
                 !.refund = SignerAddress]

\* The adapter's send succeeds on chain: the tokens can be pulled and the
\* value paid.
ChainAcceptsSend(t) ==
    /\ tokenBalance >= t.amountLD
    /\ approvalRequired => allowance >= t.amountLD
    /\ nativeBalance >= t.value

\* A catch that goes back to the submission.
SendTokensRetry == "st_send"

\* Where a failure of estimateGas, send or wait goes: the catch on line
\* 590 logs and rethrows (line 615), to the form's catch.
SendTokensCatch == "f_catch"

\* Lines 490-556: the dry run.
SendTokensEstimate ==
    /\ pc = "st_estimate"
    /\ estimateArgs' = SendArgs
    /\ \E ok \in Oks :
          IF ok /\ ChainAcceptsSend(SendArgs)
          THEN /\ pc' = "st_send"
               /\ UNCHANGED err
          ELSE /\ err' = Err("estimateGas")
               /\ pc' = SendTokensCatch
    /\ UNCHANGED call
    /\ UNCHANGED <<chainVars, formVars, argVars, oftDecimals, amountUnits,
                   minAmountUnits, msgFee, quotedParam, validation, validated,
                   nativeSeen, result, txs, reported, cycleFailed, declined>>

\* Lines 569-576: the send transaction goes to the wallet.
SendTokensSubmit ==
    /\ pc = "st_send"
    /\ \E signed \in Oks :
          IF signed
          THEN /\ txs' = Append(txs, SendArgs)
               /\ pc' = "st_wait"
               /\ UNCHANGED <<err, declined>>
          ELSE /\ err' = Err("send")
               /\ pc' = SendTokensCatch
               /\ declined' = TRUE
               /\ UNCHANGED txs
    /\ UNCHANGED call
    /\ UNCHANGED <<chainVars, formVars, argVars, sendVars, reported,
                   cycleFailed>>

\* Lines 586-589: the result built from the receipt, for args.srcEid.
SendResultFor(receipt, eid) ==
    [txHash |-> ReceiptTxHash(receipt),
     scanLink |-> getLayerZeroScanLink(ReceiptTxHash(receipt),
                                       IsTestnetEid(eid))]

\* Line 581: await tx.wait(), then the result.
SendTokensWait ==
    /\ pc = "st_wait"
    /\ \E o \in WaitOutcomes \ {"noEffect"} :
          LET t == txs[Len(txs)]
          IN  /\ TookEffect(o) => ChainAcceptsSend(t)
              /\ IF TookEffect(o)
                 THEN /\ tokenBalance' = tokenBalance - t.amountLD
                      /\ nativeBalance' = nativeBalance - t.value
                      /\ allowance' = IF approvalRequired
                                      THEN allowance - t.amountLD
                                      ELSE allowance
                 ELSE UNCHANGED <<tokenBalance, nativeBalance, allowance>>
              /\ IF WaitReturned(o)
                 THEN /\ result' = SendResultFor(Receipt(TxHashValue), srcEid)
                      /\ pc' = "f_done"
                      /\ UNCHANGED err
                 ELSE /\ err' = Err("wait")
                      /\ pc' = SendTokensCatch
                      /\ UNCHANGED result
    /\ UNCHANGED call
    /\ UNCHANGED <<calm, approvalRequired, tokenDecimals, srcEid, externals,
                   formVars, argVars, oftDecimals, amountUnits,
                   minAmountUnits, msgFee, quotedParam, validation, validated,
                   nativeSeen, estimateArgs, txs, reported, cycleFailed, declined>>

\* ------------------------------------------ form, end of handleTransfer
\* An end of handleTransfer that reports a failure after the result.
FormSuccessThenError ==
    /\ pc = "f_done"
    /\ reported' = OnError(Err("Transfer failed"))
    /\ quote' = NoFee
    /\ loading' = FALSE
    /\ pc' = "idle"
    /\ ResetAttempt
    /\ UNCHANGED call
    /\ UNCHANGED <<chainVars, tokenInfo, approvalStatus, attempts, argVars>>

\* Lines 623-637: onTransfer(result), setQuote(null), and the finally.
FormSuccess ==
    /\ pc = "f_done"
    /\ reported' = OnTransfer(result)
    /\ quote' = NoFee
    /\ loading' = FALSE
    /\ pc' = "idle"
    /\ ResetAttempt
    /\ UNCHANGED call
    /\ UNCHANGED <<chainVars, tokenInfo, approvalStatus, attempts, argVars>>

\* A catch without the finally of line 669.
FormCatchKeepsLoading ==
    /\ pc = "f_catch"
    /\ reported' = OnError(err)
    /\ pc' = "idle"
    /\ ResetAttempt
    /\ UNCHANGED call
    /\ UNCHANGED <<chainVars, tokenInfo, approvalStatus, loading, quote,
                   attempts, argVars>>

\* Lines 638-671: onError(message), and the finally.
FormCatch ==
    /\ pc = "f_catch"
    /\ reported' = OnError(err)
    /\ loading' = FALSE
    /\ pc' = "idle"
    /\ ResetAttempt
    /\ UNCHANGED call
    /\ UNCHANGED <<chainVars, tokenInfo, approvalStatus, quote, attempts,
                   argVars>>

Next ==
    \/ ChainExternalChange
    \/ HandleInputChange
    \/ GetQuote
    \/ HandleTransferStart
    \/ Preflight
    \/ FormTokenBalance
    \/ CheckAllowanceStart
    \/ CheckAllowanceRead
    \/ ApprovalStart
    \/ ApprovalSubmit
    \/ ApprovalWait
    \/ ApprovalReread
    \/ SendTokensStart
    \/ SendTokensConfig
    \/ SendTokensApproval
    \/ SendTokensParse
    \/ SendTokensQuote
    \/ SendTokensValidate
    \/ SendTokensNativeCheck
    \/ SendTokensReconfirm
    \/ SendTokensReapproveWait
    \/ SendTokensEstimate
    \/ SendTokensSubmit
    \/ SendTokensWait
    \/ FormSuccess
    \/ FormCatch

Spec == Init /\ [][Next]_vars

\* ----------------------------------------------------------------- claims
Kinds(s) == [i \in DOMAIN s |-> s[i].kind]

\* C1: in the end-to-end scenario (nothing fails, the adapter requires
\* approval, the allowance was 0 when the attempt began and the amount is
\* 100 base units) the attempt that returns has submitted
\* exactly one approve and then exactly one send, and returns a result with
\* a non-empty transaction hash and the scan link {base}/tx/{hash}.
C1_EndToEnd ==
    (/\ calm
     /\ approvalRequired
     /\ startAllowance = 0
     /\ tokenInfo.present
     /\ parseUnits(amount, tokenDecimals) = [ok |-> TRUE, v |-> 100]
     /\ minAmount = Absent
     /\ pc = "f_done") =>
        /\ Kinds(txs) = <<"approve", "send">>
        /\ result.txHash = TxHashValue
        /\ result.scanLink \in {<<MainnetBase, "/tx/", TxHashValue>>,
                                <<TestnetBase, "/tx/", TxHashValue>>}

\* C2: no approve transaction is submitted, by the form or by sendTokens,
\* while the allowance on chain already covers its amount.
C2_NoApproveWhenCovered ==
    \A i \in DOMAIN txs :
        txs[i].kind = "approve" => txs[i].allowBefore < txs[i].amountLD

\* C3: once the form's approval cycle has ended in `failed`, the attempt
\* submits no send transaction.
C3_NoSendAfterFailedApproval == cycleFailed => Sends = << >>

\* C4: the send step (estimateGas, send) is reached only after
\* validateTransactionParams returned an empty list in this invocation; a
\* non-empty list makes sendTokens throw the validation error with the
\* report, with no dry run and no send.
C4_SendOnlyWhenValid ==
    /\ (pc \in {"st_native", "st_reconfirm", "st_reapprove_wait",
                "st_estimate", "st_send", "st_wait", "f_done"}
        \/ Sends # << >> \/ estimateArgs # NoTx) =>
          (validated /\ validation = << >>)
    /\ (validated /\ validation # << >>) =>
          /\ pc = "f_catch"
          /\ err = [msg |-> "Transaction validation failed",
                    report |-> validation]
          /\ Sends = << >>
          /\ estimateArgs = NoTx
C4_Witness == validated /\ validation = << >> /\ Len(Sends) = 1

\* C6: no automatic retry.  A send is submitted only when none was
\* submitted before in the invocation and nothing has failed; once a step
\* has failed the invocation is in the form's catch, from where the only
\* way on is the report of that error to the caller.
C6_NoRetry ==
    [][/\ Len(Sends') > Len(Sends) => (Sends = << >> /\ err = NoErr)
       /\ err # NoErr =>
             /\ pc = "f_catch"
             /\ pc' # pc => /\ pc' = "idle"
                            /\ reported' = OnError(err)
                            /\ Sends' = << >>]_vars
C6_Witness == pc = "f_catch" /\ err = Err("wait") /\ Len(Sends) = 1

\* C7: the fee of every send (and of its dry run) is the fee quoteSend
\* returned inside this sendTokens invocation, whatever quote the form has
\* on display.
C7_FreshQuote ==
    /\ \A i \in DOMAIN Sends :
          msgFee \in FeeValues /\ Sends[i].fee = msgFee
    /\ estimateArgs # NoTx =>
          msgFee \in FeeValues /\ estimateArgs.fee = msgFee
C7_Witness ==
    /\ Len(Sends) = 1
    /\ quote # NoFee
    /\ quote # msgFee

\* C8: every send carries value = nativeFee, the fee pair of that quote and
\* the signer's own address as refund address, and the dry run was made
\* with the identical arguments.
C8_SendArguments ==
    \A i \in DOMAIN Sends :
        /\ Sends[i].value = msgFee[1]
        /\ Sends[i].fee = <<msgFee[1], msgFee[2]>>
        /\ Sends[i].refund = SignerAddress
        /\ estimateArgs = Sends[i]
C8_Witness == Len(Sends) = 1 /\ msgFee[2] > 0

\* C9: every send has amountLD > 0 and minAmountLD <= amountLD.
C9_Amounts ==
    \A i \in DOMAIN Sends :
        /\ Sends[i].amountLD > 0
        /\ Sends[i].minAmountLD <= Sends[i].amountLD
C9_Witness == Len(Sends) = 1 /\ minAmount # Absent

\* C10: when the native balance read after validation is below the quoted
\* nativeFee, sendTokens fails with the insufficient-funds error and
\* submits no send; beyond that guard the balance read covered the fee.
C10_NativeGuard ==
    /\ (nativeSeen >= 0 /\ nativeSeen < msgFee[1]) =>
          /\ pc = "f_catch"
          /\ err = Err("Insufficient ETH for fees")
          /\ Sends = << >>
          /\ estimateArgs = NoTx
    /\ (pc \in {"st_reconfirm", "st_reapprove_wait", "st_estimate",
                "st_send", "st_wait", "f_done"}
        \/ Sends # << >>) =>
          (nativeSeen >= 0 /\ nativeSeen >= msgFee[1])
C10_Witness == nativeSeen >= 0 /\ nativeSeen < msgFee[1]

\* C11: once the user has declined a signing prompt of the attempt, no
\* further transaction (approve or send) is submitted in that attempt and
\* the attempt ends with a failure reported to the caller.
C11_DeclineAborts ==
    [][declined =>
          /\ Len(txs') <= Len(txs)
          /\ pc' # "f_done"
          /\ (pc # "idle" /\ pc' = "idle") => reported'.kind = "error"]_vars

ApproveAppended ==
    /\ Len(txs') = Len(txs) + 1
    /\ txs'[Len(txs')].kind = "approve"

\* C12: a sendTokens run goes through its steps in order and never back:
\* no approve transaction is submitted once quoting or validating has
\* begun, and a failure at any step ends the run in the failed state.
\* The steps, in the order of the state list: resolve config 1, check
\* approval and approve 2, quote 3, validate 4, submit 5, confirm 6, done 7,
\* failed 8; awaiting an approve transaction is part of step 2 wherever
\* the code does it.
C12_StepOrder ==
    [][LET SendTokensSteps ==
               {"st_start", "st_config", "st_approval", "st_parse",
                "st_quote", "st_validate", "st_native", "st_reconfirm",
                "st_reapprove_wait", "st_estimate", "st_send", "st_wait",
                "f_done", "f_catch"}
           StepRank(p) ==
               CASE p \in {"st_start", "st_config"} -> 1
                 [] p \in {"st_approval", "st_reapprove_wait"} -> 2
                 [] p \in {"st_parse", "st_quote"} -> 3
                 [] p = "st_validate" -> 4
                 [] p \in {"st_native", "st_reconfirm", "st_estimate",
                           "st_send"} -> 5
                 [] p = "st_wait" -> 6
                 [] p = "f_done" -> 7
                 [] OTHER -> 8
       IN  /\ (pc \in SendTokensSteps /\ pc' \in SendTokensSteps) =>
                 StepRank(pc') >= StepRank(pc)
           /\ (pc \in SendTokensSteps /\ ApproveAppended) =>
                 (msgFee = NoFee /\ ~validated)
           /\ (pc \in SendTokensSteps /\ StepRank(pc) < 7 /\ err' # err) =>
                 pc' = "f_catch"]_vars

\* C14: the form's approval step, having submitted an approve transaction
\* and awaited it, reads the allowance again and ends `approved` only when
\* the allowance it reads is >= the required amount; otherwise it ends
\* `failed`.
C14_RereadDecides ==
    [][(pc = "f_reread" /\ pc' # "f_reread") =>
          \/ /\ approvalStatus' = "approved"
             /\ allowance >= parseUnits(amount, tokenInfo.decimals).v
             /\ ~cycleFailed'
          \/ /\ approvalStatus' = "failed"
             /\ cycleFailed']_vars
C14_Witness ==
    /\ pc = "st_start"
    /\ approvalStatus = "approved"
    /\ Kinds(txs) = <<"approve">>
    /\ startAllowance < txs[1].amountLD
    /\ allowance >= txs[1].amountLD

\* C21: an attempt submits an approve transaction only if the adapter
\* requires approval and the allowance on chain is below the amount; with
\* approvalRequired = false it submits none.
C21_ApproveOnlyWhenRequired ==
    \A i \in DOMAIN txs :
        txs[i].kind = "approve" =>
            (approvalRequired /\ txs[i].allowBefore < txs[i].amountLD)

\* C22: approve is invoked only while the approval state is `needed`: the
\* form's handleApproval is entered, and sendTokens submits an approve of
\* its own, from no other state.
C22_ApproveOnlyWhenNeeded ==
    [][(\/ (pc = "f_approve" /\ pc' = "f_approve_tx")
        \/ (ApproveAppended /\ txs'[Len(txs')].by # "form")) =>
          approvalStatus = "needed"]_vars

\* C23: within one attempt the approval state changes only along
\* none -> checking -> {approved | needed} -> approving ->
\* {approved | failed}; a check sets `checking` from any state and resolves
\* to `approved` if the allowance covers the amount and to `needed`
\* otherwise.
C23_ApprovalForward ==
    [][(pc # "idle" /\ approvalStatus' # approvalStatus) =>
          /\ <<approvalStatus, approvalStatus'>> \in
                ({"none", "checking", "needed", "approving", "approved",
                  "failed"} \X {"checking"})
                \cup {<<"checking", "approved">>, <<"checking", "needed">>,
                      <<"needed", "approving">>, <<"approving", "approved">>,
                      <<"approving", "failed">>}
          /\ approvalStatus = "checking" =>
                approvalStatus' =
                    IF allowance >= parseUnits(amount, tokenInfo.decimals).v
                    THEN "approved" ELSE "needed"]_vars

\* C29: whatever the re-confirmation of token balance and allowance inside
\* sendTokens finds (a failed read, an insufficient balance, a declined or
\* failed re-approval), the run raises no error there and goes on to
\* estimateGas.
C29_ReconfirmNeverAborts ==
    [][(pc \in {"st_reconfirm", "st_reapprove_wait"}) =>
          (pc' \in {pc, "st_reapprove_wait", "st_estimate"} /\ err' = err)]_vars
C29_Witness ==
    /\ pc = "st_send"
    /\ declined
    /\ ~cycleFailed
    /\ estimateArgs = SendArgs

\* C30: in sendTokens and in the quoteSend it calls, minAmountLD is the
\* converted minAmount when one is given and amountLD when it is absent or
\* empty, both converted with the decimals of the config resolved there.
C30_MinAmountDefault ==
    LET AmountsFor(d) ==
            <<parseUnits(amount, d).v,
              IF minAmount = Absent THEN parseUnits(amount, d).v
              ELSE parseUnits(minAmount, d).v>>
    IN  /\ amountUnits # 0 =>
              <<amountUnits, minAmountUnits>> = AmountsFor(oftDecimals)
        /\ msgFee # NoFee =>
              \E d \in {tokenDecimals, DefaultDecimals} :
                  quotedParam = AmountsFor(d)
        /\ \A i \in DOMAIN Sends :
              <<Sends[i].amountLD, Sends[i].minAmountLD>> =
                  AmountsFor(oftDecimals)
C30_Witness ==
    /\ Len(Sends) = 1
    /\ minAmount = Absent
    /\ Sends[1].minAmountLD = Sends[1].amountLD
    /\ quotedParam[2] = quotedParam[1]

\* C32: when estimateGas, the send submission or the confirmation wait
\* fails, sendTokens throws the error of the failing call itself, neither
\* replaced nor wrapped nor suppressed, and the form hands the message of
\* the error it caught to onError.
C32_ErrorVerbatim ==
    [][/\ (pc \in {"st_estimate", "st_send", "st_wait"} /\ pc' = "f_catch")
            => err' = Err(CASE pc = "st_estimate" -> "estimateGas"
                            [] pc = "st_send" -> "send"
                            [] OTHER -> "wait")
       /\ (pc \in {"st_estimate", "st_send", "st_wait"} /\ err' # err)
            => pc' = "f_catch"
       /\ (pc = "f_catch" /\ pc' = "idle")
            => reported' = [kind |-> "error", msg |-> err.msg,
                            result |-> NoResult]]_vars
C32_Witness ==
    /\ pc = "idle"
    /\ reported.kind = "error"
    /\ reported.msg = "wait"
    /\ ~loading

\* C33: within one sendTokens invocation the amounts quoted are the amounts
\* sent: amountLD and minAmountLD of the internal quoteSend call equal those
\* of the dry run and of the send, whatever chain reads fail in between.
C33_QuotedIsSent ==
    /\ estimateArgs # NoTx =>
          <<estimateArgs.amountLD, estimateArgs.minAmountLD>> = quotedParam
    /\ \A i \in DOMAIN Sends :
          <<Sends[i].amountLD, Sends[i].minAmountLD>> = quotedParam

C35_OneOutcome ==
    [][/\ pc # "idle" => reported = NoReport
       /\ (pc # "idle" /\ pc' = "idle") =>
            /\ reported'.kind \in {"transfer", "error"}
            /\ reported'.kind = "transfer" <=> pc = "f_done"
            /\ pc = "f_done" =>
                  (Len(Sends) = 1 /\ reported' = OnTransfer(result))
       /\ (attempts' # attempts /\ pc' = "idle") =>
            reported'.kind = "error"]_vars
C35_Witness ==
    /\ pc = "idle"
    /\ attempts = 1
    /\ reported.kind = "transfer"
    /\ reported.result.scanLink # << >>

\* ------------------------------------- validateTransactionParams, alone
InitValidate ==
    /\ calm = FALSE
    /\ allowance = 100
    /\ tokenBalance = 200
    /\ nativeBalance = 3
    /\ approvalRequired = TRUE
    /\ tokenDecimals = 2
    /\ srcEid = 30101
    /\ externals = 0
    /\ tokenInfo = NoTokenInfo
    /\ approvalStatus = "none"
    /\ loading = FALSE
    /\ quote = NoFee
    /\ attempts = 0
    /\ pc = "idle"
    /\ amount = A_one
    /\ minAmount = Absent
    /\ to = ValidTo
    /\ startAllowance = 100
    /\ oftDecimals = 0
    /\ amountUnits = 0
    /\ minAmountUnits = 0
    /\ msgFee = NoFee
    /\ quotedParam = <<0, 0>>
    /\ validation = << >>
    /\ validated = FALSE
    /\ nativeSeen = 0 - 1
    /\ estimateArgs = NoTx
    /\ txs = << >>
    /\ err = NoErr
    /\ result = NoResult
    /\ reported = NoReport
    /\ cycleFailed = FALSE
    /\ declined = FALSE
    /\ call \in
      [fn : {"validateTransactionParams"}, done : {FALSE},
       dstEid : {0, DstEid}, to : Recipients,
       amountUnits : {0, 100, 300}, minAmountUnits : {100, 400},
       nativeFee : {0, 2, 5}, probe : {"ok", "rejected", "noSigner"},
       cfgRead : {[ok |-> TRUE, v |-> 0], [ok |-> FALSE, v |-> 0]},
       balRead : {[ok |-> TRUE, v |-> 200], [ok |-> FALSE, v |-> 200]},
       allowRead : {[ok |-> TRUE, v |-> 100], [ok |-> FALSE, v |-> 100]},
       nativeRead : {[ok |-> TRUE, v |-> 3], [ok |-> FALSE, v |-> 3]},
       errors : {<< >>}]

ValidateCall ==
    /\ call.fn = "validateTransactionParams"
    /\ ~call.done
    /\ call' = [call EXCEPT
                  !.done = TRUE,
                  !.errors = validateTransactionParams(
                                 call.dstEid, call.to, call.amountUnits,
                                 call.minAmountUnits, call.nativeFee,
                                 call.probe, call.cfgRead, call.balRead,
                                 call.allowRead, call.nativeRead)]
    /\ UNCHANGED <<chainVars, formVars, argVars, sendVars, histVars, pc>>

NextValidate == ValidateCall
SpecValidate == InitValidate /\ [][NextValidate]_vars

\* ------------------------------------------------ single calls, alone
\* Decimal arithmetic on numeric strings: twice a number, 2^n, and the
\* predecessor of a positive number.
DoubleDec(ds) ==
    LET carry(i) == IF i < Len(ds) /\ ds[i + 1] >= 5 THEN 1 ELSE 0
        digits == [i \in 1..Len(ds) |-> (2 * ds[i] + carry(i)) % 10]
    IN  (IF ds[1] >= 5 THEN <<1>> ELSE << >>) \o digits
\* Each round works on the finished digits of the round before.
RECURSIVE DoubleTimes(_, _)
DoubleTimes(ds, n) ==
    LET d == DoubleDec(ds)
    IN  IF n = 0 THEN ds
        ELSE IF Len(d) > 0 THEN DoubleTimes(d, n - 1) ELSE d
TwoPow128 ==
    LET x16(ds) == DoubleTimes(ds, 16)
    IN  x16(x16(x16(x16(x16(x16(x16(x16(<<1>>))))))))
RECURSIVE DecPred(_)
DecPred(ds) ==
    IF ds[Len(ds)] > 0 THEN [ds EXCEPT ![Len(ds)] = @ - 1]
    ELSE Append(DecPred(SubSeq(ds, 1, Len(ds) - 1)), 9)

programVars == <<chainVars, formVars, argVars, sendVars, histVars, pc>>

\* A thrown Error is the list of the parts of its message, outermost
\* first; a catch that rethrows puts its own part in front.
E_ContractNotFound == "Contract does not exist at this address"
ConfigFailed(parts, reads) ==
    [ok |-> FALSE, decimals |-> 0, approvalRequired |-> FALSE,
     error |-> <<"Failed to get OFT configuration">> \o parts,
     reads |-> reads]

\* A config read that goes on without looking at the code.
getOFTConfigUnverified(signerOk, codeRead, tokenOk, tokenDec, adapterDec, approvalRead) ==
    [ok |-> TRUE, decimals |-> GetOFTConfigDecimals(tokenDec, adapterDec),
     approvalRequired |-> GetOFTConfigApproval(approvalRead),
     error |-> << >>, reads |-> <<"token", "decimals", "approvalRequired">>]

\* getOFTConfig, lines 53-103: the signer, the code at the address (the
\* throw of line 62 is caught and rethrown on line 65), token(), the
\* decimals and approvalRequired; `reads` lists the chain reads made.
getOFTConfig(signerOk, codeRead, tokenOk, tokenDec, adapterDec, approvalRead) ==
    IF ~signerOk THEN ConfigFailed(<<"getSigner">>, << >>)
    ELSE IF ~codeRead.ok
    THEN ConfigFailed(<<"Failed to verify contract", "getCode">>,
                      <<"getCode">>)
    ELSE IF codeRead.v = "0x"
    THEN ConfigFailed(<<"Failed to verify contract", E_ContractNotFound>>,
                      <<"getCode">>)
    ELSE IF ~tokenOk THEN ConfigFailed(<<"token">>, <<"getCode", "token">>)
    ELSE [ok |-> TRUE,
          decimals |-> GetOFTConfigDecimals(tokenDec, adapterDec),
          approvalRequired |-> GetOFTConfigApproval(approvalRead),
          error |-> << >>,
          reads |-> <<"getCode", "token", "decimals">>
                    \o (IF tokenDec.ok THEN << >> ELSE <<"adapterDecimals">>)
                    \o <<"approvalRequired">>]

\* A support check that takes a failed actual-amount probe for support.
checkOFTAdapterSupportLenient(signerOk, decRead, decimals, amt, minimal, actual) ==
    [isSupported |-> TRUE, error |-> "none", recommendations |-> 2,
     probes |-> <<"minimal", "actual">>]

\* checkOFTAdapterSupport, lines 1071-1216.  A probe is answered "ok",
\* "reverted" (an error whose message has 'execution reverted') or
\* "failed" (any other error); `probes` lists the probes issued and
\* `recommendations` counts the entries of the list returned.
checkOFTAdapterSupport(signerOk, decRead, decimals, amt, minimal, actual) ==
    LET dec == IF decRead.ok THEN decRead.v ELSE decimals
        units == parseUnits(amt, dec)
        testAmount == parseUnits(A_milli, dec)
        Unsupported(e, n, probes) ==
            [isSupported |-> FALSE, error |-> e, recommendations |-> n,
             probes |-> probes]
    IN  IF ~signerOk \/ ~units.ok \/ ~testAmount.ok
        THEN Unsupported("Support check failed", 3, << >>)
        ELSE IF minimal = "reverted"
        THEN Unsupported(E_DstUnsupported, 3, <<"minimal">>)
        ELSE IF minimal = "failed"
        THEN Unsupported("OFT adapter validation failed", 3, <<"minimal">>)
        ELSE IF actual = "reverted"
        THEN Unsupported("Amount too small for this OFT adapter", 3,
                         <<"minimal", "actual">>)
        ELSE IF actual = "failed"
        THEN Unsupported("OFT adapter does not support this amount", 2,
                         <<"minimal", "actual">>)
        ELSE [isSupported |-> TRUE, error |-> "none", recommendations |-> 2,
              probes |-> <<"minimal", "actual">>]

CheckOFTAdapterSupportCall ==
    /\ call.fn = "checkOFTAdapterSupport"
    /\ ~call.done
    /\ call' = [call EXCEPT
                  !.done = TRUE,
                  !.out = checkOFTAdapterSupport(call.signerOk, call.decRead,
                              call.decimals, call.amount, call.minimal,
                              call.actual)]
    /\ UNCHANGED programVars

\* A validation that a failed quoteSend probe turns invalid.
validateOFTAdapterStrict(codeRead, signerOk, tokenOk, tokenCodeRead, probeOk) ==
    [isValid |-> codeRead.ok /\ codeRead.v # "0x" /\ signerOk /\ tokenOk
                 /\ tokenCodeRead.ok /\ tokenCodeRead.v # "0x" /\ probeOk,
     error |-> "quoteSend test failed"]

\* validateOFTAdapter, lines 917-980: the code at the adapter, the signer,
\* token(), the code at the token, and the quoteSend probe whose catch
\* (line 964) only logs.  The inner catch (line 971) takes a failed
\* token() and a failed read of the token's code alike.
validateOFTAdapter(codeRead, signerOk, tokenOk, tokenCodeRead, probeOk) ==
    LET Invalid(e) == [isValid |-> FALSE, error |-> e]
    IN  IF ~codeRead.ok THEN Invalid("Validation failed")
        ELSE IF codeRead.v = "0x" THEN Invalid(E_ContractNotFound)
        ELSE IF ~signerOk THEN Invalid("Validation failed")
        ELSE IF ~tokenOk \/ ~tokenCodeRead.ok
        THEN Invalid("Contract does not implement OFT interface")
        ELSE IF tokenCodeRead.v = "0x"
        THEN Invalid("Underlying token contract does not exist")
        ELSE [isValid |-> TRUE, error |-> "none"]

ValidateOFTAdapterCall ==
    /\ call.fn = "validateOFTAdapter"
    /\ ~call.done
    /\ call' = [call EXCEPT
                  !.done = TRUE,
                  !.out = validateOFTAdapter(call.codeRead, call.signerOk,
                              call.tokenOk, call.tokenCodeRead,
                              call.probeOk)]
    /\ UNCHANGED programVars

\* A compatibility check that does not ask validateOFTAdapter.
checkNetworkCompatibilityUnvalidated(chainOk, chainId, codeRead, adapter) ==
    [threw |-> ~chainOk \/ ~codeRead.ok,
     isCompatible |-> getCurrentSrcEid(chainId).ok /\ codeRead.v # "0x",
     error |-> "none", recommendations |-> 2]

\* checkNetworkCompatibility, lines 985-1066: the chain id and its endpoint
\* id, the code at the adapter, then validateOFTAdapter, whose result is
\* `adapter`; whatever is thrown on the way is turned into a result by
\* the catch on line 1054.
checkNetworkCompatibility(chainOk, chainId, codeRead, adapter) ==
    LET Incompatible(e, n) ==
            [threw |-> FALSE, isCompatible |-> FALSE, error |-> e,
             recommendations |-> n]
    IN  IF ~chainOk THEN Incompatible("Network check failed", 2)
        ELSE IF ~getCurrentSrcEid(chainId).ok
        THEN Incompatible(getCurrentSrcEid(chainId).error, 2)
        ELSE IF ~codeRead.ok THEN Incompatible("Network check failed", 2)
        ELSE IF codeRead.v = "0x"
        THEN Incompatible("OFT adapter is not deployed on this network", 3)
        ELSE IF ~adapter.isValid THEN Incompatible(adapter.error, 3)
        ELSE [threw |-> FALSE, isCompatible |-> TRUE, error |-> "none",
              recommendations |-> 2]

\* The code at the adapter is read by checkNetworkCompatibility and again
\* by validateOFTAdapter; either read may fail.
CheckNetworkCompatibilityCall ==
    /\ call.fn = "checkNetworkCompatibility"
    /\ ~call.done
    /\ LET adapter ==
               validateOFTAdapter([ok |-> call.recheckOk,
                                   v |-> call.codeRead.v],
                                  call.signerOk, call.tokenOk,
                                  call.tokenCodeRead, call.probeOk)
       IN  call' = [call EXCEPT
                      !.done = TRUE,
                      !.validation = adapter,
                      !.out = checkNetworkCompatibility(call.chainOk,
                                  call.chainId, call.codeRead, adapter)]
    /\ UNCHANGED programVars

GetOFTConfigCall ==
    /\ call.fn = "getOFTConfig"
    /\ ~call.done
    /\ call' = [call EXCEPT
                  !.done = TRUE,
                  !.out = getOFTConfig(call.signerOk, call.codeRead,
                                       call.tokenOk, call.tokenDec,
                                       call.adapterDec, call.approvalRead)]
    /\ UNCHANGED programVars

\* A quoteSend that gives up when the token metadata cannot be read.
quoteSendStrict(tokenOk, nameOk, symbolOk, decOk, codeRead, quoteOk) ==
    LET infoOk == tokenOk /\ nameOk /\ symbolOk /\ decOk
        noCode == tokenOk /\ codeRead.ok /\ codeRead.v = "0x"
        requested == infoOk /\ ~noCode
    IN  [ok |-> requested /\ quoteOk,
         requested |-> requested,
         tokenInfo |-> requested /\ quoteOk,
         error |-> IF requested /\ quoteOk THEN << >>
                   ELSE <<"Failed to get quote">>]

\* quoteSend, lines 220-318, once the config is resolved: token() and the
\* reads of name, symbol and decimals (their catch on line 252 only logs),
\* the code check (lines 257-260, the one failure the catch on line 264
\* throws again), then the quote itself (line 304) and the result.
quoteSend(tokenOk, nameOk, symbolOk, decOk, codeRead, quoteOk) ==
    LET infoOk == tokenOk /\ nameOk /\ symbolOk /\ decOk
        noCode == tokenOk /\ codeRead.ok /\ codeRead.v = "0x"
        requested == ~noCode
    IN  [ok |-> requested /\ quoteOk,
         requested |-> requested,
         tokenInfo |-> requested /\ quoteOk /\ infoOk,
         error |-> IF requested /\ quoteOk THEN << >>
                   ELSE IF noCode
                   THEN <<"Failed to get quote",
                          "OFT adapter is not deployed on the current network">>
                   ELSE <<"Failed to get quote", "quoteSend">>]

QuoteSendCall ==
    /\ call.fn = "quoteSendTokenInfo"
    /\ ~call.done
    /\ call' = [call EXCEPT
                  !.done = TRUE,
                  !.out = quoteSend(call.tokenOk, call.nameOk, call.symbolOk,
                                    call.decOk, call.codeRead, call.quoteOk)]
    /\ UNCHANGED programVars

\* ------------------------------------- TransferForm, adapter selection
\* ADAPTER_CONFIGS, lines 40-59.
ADAPTER_CONFIGS ==
    <<[address |-> "0x681E68B9E70882D461f3b65e1Cfe09e1f251494D",
       srcEid |-> 30101, dstEid |-> 30109],
      [address |-> "0xCc1759221c2Ef0c069514F789d730508FEA1Da96",
       srcEid |-> 30109, dstEid |-> 30101]>>

\* String.prototype.toLowerCase on the addresses the form meets.
toLowerCase(str) ==
    CASE str = "0x681E68B9E70882D461f3b65e1Cfe09e1f251494D"
           -> "0x681e68b9e70882d461f3b65e1cfe09e1f251494d"
      [] str = "0xCc1759221c2Ef0c069514F789d730508FEA1Da96"
           -> "0xcc1759221c2ef0c069514f789d730508fea1da96"
      [] OTHER -> str

\* adapterValidation without a selected adapter: { isValid: false }.
NoAdapter == [isValid |-> FALSE, error |-> "none", selectedAdapter |-> 0]

\* validateAdapterSelection, lines 152-171, with the currentSrcEid of the
\* render it belongs to: the adapterValidation it sets and the index in
\* ADAPTER_CONFIGS of the adapter it returns, 0 for null.
validateAdapterSelection(adapterAddress, renderSrcEid) ==
    LET found == {i \in DOMAIN ADAPTER_CONFIGS :
                     toLowerCase(ADAPTER_CONFIGS[i].address)
                         = toLowerCase(adapterAddress)}
        i == CHOOSE j \in found : \A k \in found : j <= k
    IN  IF found = {}
        THEN [validation |-> [NoAdapter EXCEPT
                                !.error = "Unknown adapter address"],
              adapter |-> 0]
        ELSE IF ADAPTER_CONFIGS[i].srcEid # renderSrcEid
        THEN [validation |-> [isValid |-> FALSE,
                              error |-> "This adapter is for another network",
                              selectedAdapter |-> i],
              adapter |-> 0]
        ELSE [validation |-> [isValid |-> TRUE, error |-> "none",
                              selectedAdapter |-> i],
              adapter |-> i]

\* The effect of lines 86-140, run once on mount: getCurrentSrcEid, then
\* the auto-selection.  The effect belongs to the first render, and so does
\* the validateAdapterSelection it calls: the currentSrcEid that one reads
\* is the initial state of line 78, whatever setCurrentSrcEid was given on
\* line 90.
GetCurrentNetwork ==
    /\ call.fn = "TransferForm"
    /\ call.mounting
    /\ LET eid == call.wallet.eid
           firstRenderSrcEid == 0
           compatible == {i \in DOMAIN ADAPTER_CONFIGS :
                             ADAPTER_CONFIGS[i].srcEid = eid}
           i == CHOOSE j \in compatible : \A k \in compatible : j <= k
           v == validateAdapterSelection(ADAPTER_CONFIGS[i].address,
                                         firstRenderSrcEid)
       IN  call' =
             IF ~call.wallet.ok THEN [call EXCEPT !.mounting = FALSE]
             ELSE IF compatible = {}
             THEN [call EXCEPT !.mounting = FALSE, !.currentSrcEid = eid,
                               !.srcEid = eid]
             ELSE IF v.adapter = 0
             THEN [call EXCEPT !.mounting = FALSE, !.currentSrcEid = eid,
                               !.srcEid = eid,
                               !.adapterValidation = v.validation]
             ELSE [call EXCEPT !.mounting = FALSE, !.currentSrcEid = eid,
                               !.srcEid = eid,
                               !.adapterValidation = v.validation,
                               !.oftAddress = ADAPTER_CONFIGS[i].address,
                               !.dstEid = ADAPTER_CONFIGS[i].dstEid]
    /\ UNCHANGED programVars

\* handleAdapterSelection, lines 174-193, for an option of the dropdown
\* (lines 733-755; the empty option does not reach it).
HandleAdapterSelection ==
    /\ call.fn = "TransferForm"
    /\ \E o \in DOMAIN ADAPTER_CONFIGS :
          LET v == validateAdapterSelection(ADAPTER_CONFIGS[o].address,
                                            call.currentSrcEid)
          IN  call' =
                IF v.adapter = 0
                THEN [call EXCEPT !.touched = TRUE,
                                  !.adapterValidation = v.validation]
                ELSE [call EXCEPT
                        !.touched = TRUE,
                        !.adapterValidation = v.validation,
                        !.oftAddress = ADAPTER_CONFIGS[v.adapter].address,
                        !.dstEid = ADAPTER_CONFIGS[v.adapter].dstEid]
    /\ UNCHANGED programVars

\* clearAdapterSelection, lines 196-204; its button shows while an adapter
\* is selected (line 773).
ClearAdapterSelection ==
    /\ call.fn = "TransferForm"
    /\ call.adapterValidation.selectedAdapter # 0
    /\ call' = [call EXCEPT !.touched = TRUE, !.oftAddress = "",
                            !.dstEid = call.srcEid,
                            !.adapterValidation = NoAdapter]
    /\ UNCHANGED programVars

\* handleInputChange on the address field, lines 293-328; the field is
\* disabled while an adapter is selected (line 765).
HandleAddressChange ==
    /\ call.fn = "TransferForm"
    /\ call.adapterValidation.selectedAdapter = 0
    /\ \E value \in {"", "0x681E68B9E70882D461f3b65e1Cfe09e1f251494D",
                     "0x681e68b9e70882d461f3b65e1cfe09e1f251494d",
                     "0xCc1759221c2Ef0c069514F789d730508FEA1Da96",
                     "0x1111111111111111111111111111111111111111"} :
          LET v == validateAdapterSelection(value, call.currentSrcEid)
              known == v.validation.selectedAdapter # 0
          IN  call' =
                IF value = "" \/ ~known
                THEN [call EXCEPT !.touched = TRUE, !.oftAddress = value,
                                  !.adapterValidation = NoAdapter]
                ELSE IF v.adapter = 0
                THEN [call EXCEPT !.touched = TRUE, !.oftAddress = value,
                                  !.adapterValidation = v.validation]
                ELSE [call EXCEPT
                        !.touched = TRUE, !.oftAddress = value,
                        !.adapterValidation = v.validation,
                        !.dstEid = ADAPTER_CONFIGS[v.adapter].dstEid]
    /\ UNCHANGED programVars

\* handleInputChange on the destination select, lines 942-953, disabled
\* while a valid adapter is selected (line 946).
HandleDstEidChange ==
    /\ call.fn = "TransferForm"
    /\ ~(call.adapterValidation.selectedAdapter # 0
         /\ call.adapterValidation.isValid)
    /\ \E value \in {30101, 30109} :
          call' = [call EXCEPT !.touched = TRUE, !.dstEid = value]
    /\ UNCHANGED programVars

\* ----------------------------------------------- useOFTClient, the hook
\* A state value of the hook is null, << >>, or a value, <<v>>.  The state
\* setters a handler calls in a row take effect together (React batches
\* them into one render).
\* A disconnect that keeps the address on display.
DisconnectKeepsAddress(h) ==
    [h EXCEPT !.client = << >>, !.isConnected = FALSE, !.chainId = << >>,
              !.error = << >>]

\* disconnect, lines 64-70.
Disconnect(h) ==
    [h EXCEPT !.client = << >>, !.isConnected = FALSE, !.address = << >>,
              !.chainId = << >>, !.error = << >>]

\* connect, lines 24-25: setLoading(true), setError(null).  The buttons
\* that call it show when there is an error or no connection, and no button
\* shows while loading (ConnectionStatus, lines 33-67).
ConnectStart ==
    /\ call.fn = "useOFTClient"
    /\ ~call.loading
    /\ call.error # << >> \/ ~call.isConnected
    /\ call' = [call EXCEPT !.loading = TRUE, !.error = << >>,
                            !.connecting = TRUE]
    /\ UNCHANGED programVars

\* A connect without the finally of line 59.
ConnectSettleKeepsLoading ==
    /\ call.fn = "useOFTClient"
    /\ call.connecting
    /\ \E failure \in {"MetaMask is not installed"} :
          call' = [call EXCEPT !.connecting = FALSE, !.outcome = failure,
                              !.error = <<failure>>]
    /\ UNCHANGED programVars

\* connect, lines 27-61: the wallet checks, the account request, the reads
\* of the signer's address and of the chain id, then either the four
\* setters of lines 49-52 or setError (line 57), and the finally.
ConnectSettle ==
    /\ call.fn = "useOFTClient"
    /\ call.connecting
    /\ \/ \E currentAddress \in {"0xA", "0xB"}, currentChainId \in {1, 137} :
             call' = [call EXCEPT
                        !.loading = FALSE, !.connecting = FALSE,
                        !.outcome = "connected",
                        !.client = <<"OFTClient">>, !.isConnected = TRUE,
                        !.address = <<currentAddress>>,
                        !.chainId = <<currentChainId>>]
       \/ \E failure \in {"MetaMask is not installed",
                          "User rejected account access",
                          "No accounts found", "getSignerAddress",
                          "getChainId"} :
             call' = [call EXCEPT
                        !.loading = FALSE, !.connecting = FALSE,
                        !.outcome = failure, !.error = <<failure>>]
    /\ UNCHANGED programVars

\* The Disconnect button, shown when connected without error and not
\* loading (ConnectionStatus, lines 69-83).
DisconnectClick ==
    /\ call.fn = "useOFTClient"
    /\ call.isConnected
    /\ ~call.loading
    /\ call.error = << >>
    /\ call' = [Disconnect(call) EXCEPT !.outcome = "disconnected"]
    /\ UNCHANGED programVars

\* handleAccountsChanged, lines 76-83, registered while isConnected.
AccountsChanged ==
    /\ call.fn = "useOFTClient"
    /\ call.isConnected
    /\ \E accountArray \in {<< >>, <<"0xA">>, <<"0xB">>, <<"0xB", "0xA">>} :
          call' = IF Len(accountArray) = 0
                  THEN [Disconnect(call) EXCEPT !.outcome = "disconnected"]
                  ELSE [call EXCEPT !.address = <<accountArray[1]>>,
                                    !.outcome = "accountsChanged"]
    /\ UNCHANGED programVars

\* ------------------------------------------------------ App, the banner
\* The last event is kept with its argument and with whether an outcome of
\* the other kind was on display when it came.
\* App.handleTransfer, lines 13-16, called by the form's onTransfer.
AppHandleTransfer ==
    /\ call.fn = "App"
    /\ \E r \in {SendResultFor(Receipt("0xabc"), 30101),
                 [txHash |-> "0xdef",
                  scanLink |-> getLayerZeroScanLink("0xdef", FALSE)]} :
          call' = [call EXCEPT !.transactionResult = <<r>>,
                               !.error = << >>,
                               !.event = <<"handleTransfer", r,
                                           call.error # << >>>>]
    /\ UNCHANGED programVars

\* A handleError that leaves the transaction result on display.
AppHandleErrorKeepsResult ==
    /\ call.fn = "App"
    /\ \E errorMessage \in {"Transfer failed", "Failed to get quote"} :
          call' = [call EXCEPT !.error = <<errorMessage>>,
                               !.event = <<"handleError", errorMessage,
                                           call.transactionResult # << >>>>]
    /\ UNCHANGED programVars

\* App.handleError, lines 18-21, called by the form's onError.
AppHandleError ==
    /\ call.fn = "App"
    /\ \E errorMessage \in {"Transfer failed", "Failed to get quote"} :
          call' = [call EXCEPT !.error = <<errorMessage>>,
                               !.transactionResult = << >>,
                               !.event = <<"handleError", errorMessage,
                                           call.transactionResult # << >>>>]
    /\ UNCHANGED programVars

\* App.handleCloseResult, lines 23-25.
HandleCloseResult ==
    /\ call.fn = "App"
    /\ call.transactionResult # << >>
    /\ call' = [call EXCEPT !.transactionResult = << >>,
                            !.event = <<"handleCloseResult">>]
    /\ UNCHANGED programVars

\* App.handleCloseError, lines 27-29; the button is part of the banner.
HandleCloseError ==
    /\ call.fn = "App"
    /\ call.error # << >>
    /\ call' = [call EXCEPT !.error = << >>,
                            !.event = <<"handleCloseError">>]
    /\ UNCHANGED programVars

\* Two calls of buildOptions on one client, one after the other.
BuildOptionsCall ==
    /\ call.fn = "buildOptions"
    /\ ~call.done
    /\ call' = IF call.n = 0
               THEN [call EXCEPT !.n = 1,
                                 !.out1 = buildOptions(call.first, << >>)]
               ELSE [call EXCEPT !.n = 2, !.done = TRUE,
                                 !.out2 = buildOptions(call.second,
                                                       call.out1.blob)]
    /\ UNCHANGED programVars

GetCurrentSrcEidCall ==
    /\ call.fn = "getCurrentSrcEid"
    /\ ~call.done
    /\ call' = [call EXCEPT !.done = TRUE,
                            !.out = getCurrentSrcEid(call.chainId)]
    /\ UNCHANGED programVars

\* The result of sendTokens for a receipt, and the link for a hash.
ScanLinkCall ==
    /\ call.fn = "scanLink"
    /\ ~call.done
    /\ call' = [call EXCEPT
                  !.done = TRUE,
                  !.result = SendResultFor(Receipt(call.hash), call.srcEid),
                  !.link = getLayerZeroScanLink(call.hash,
                                                IsTestnetEid(call.srcEid))]
    /\ UNCHANGED programVars

\* quoteSend lines 204-206 and sendTokens lines 325-327: the first
\* statement.
EntryCheckCall ==
    /\ call.fn \in {"quoteSend", "sendTokens"}
    /\ call.stage = "called"
    /\ call' = IF IsEvmEid(call.srcEid)
               THEN [call EXCEPT !.stage = "running"]
               ELSE [call EXCEPT !.stage = "thrown", !.done = TRUE,
                                 !.error = <<"non-EVM srcEid not supported">>]
    /\ UNCHANGED programVars

\* The rest of the call.  quoteSend reads the network (line 214) and the
\* config (line 217), and its catch rethrows with its own prefix (line
\* 315); sendTokens reads the config (line 332) outside any try.  With the
\* config in hand quoteSend goes on to its quote and sendTokens to its
\* transactions.
EntryRunCall ==
    /\ call.fn \in {"quoteSend", "sendTokens"}
    /\ call.stage = "running"
    /\ LET read(v) == [ok |-> TRUE, v |-> v]
           cfg == getOFTConfig(TRUE, read(call.code), TRUE, read(18),
                               read(18), read(TRUE))
           n == Len(cfg.reads) + (IF call.fn = "quoteSend" THEN 1 ELSE 0)
       IN  call' = IF cfg.ok
                   THEN [call EXCEPT
                           !.stage = "returned", !.done = TRUE,
                           !.reads = n,
                           !.txs = IF call.fn = "sendTokens" THEN 1 ELSE 0]
                   ELSE [call EXCEPT
                           !.stage = "thrown", !.done = TRUE, !.reads = n,
                           !.error = IF call.fn = "quoteSend"
                                     THEN <<"Failed to get quote">>
                                          \o cfg.error
                                     ELSE cfg.error]
    /\ UNCHANGED programVars

\* The program at rest while one function of the client is called: two
\* calls of buildOptions (numeric strings as digit sequences; 2^128 - 1
\* and 2^128 among the drop amounts), getCurrentSrcEid on a chain id, the
\* result of sendTokens for a receipt, or the entry of quoteSend and
\* sendTokens (30168 and 30108 are the endpoint ids of Solana and Aptos).
InitCalls ==
    /\ calm = FALSE
    /\ allowance = 100
    /\ tokenBalance = 200
    /\ nativeBalance = 3
    /\ approvalRequired = TRUE
    /\ tokenDecimals = 2
    /\ srcEid = 30101
    /\ externals = 0
    /\ tokenInfo = NoTokenInfo
    /\ approvalStatus = "none"
    /\ loading = FALSE
    /\ quote = NoFee
    /\ attempts = 0
    /\ pc = "idle"
    /\ amount = A_one
    /\ minAmount = Absent
    /\ to = ValidTo
    /\ startAllowance = 100
    /\ oftDecimals = 0
    /\ amountUnits = 0
    /\ minAmountUnits = 0
    /\ msgFee = NoFee
    /\ quotedParam = <<0, 0>>
    /\ validation = << >>
    /\ validated = FALSE
    /\ nativeSeen = 0 - 1
    /\ estimateArgs = NoTx
    /\ txs = << >>
    /\ err = NoErr
    /\ result = NoResult
    /\ reported = NoReport
    /\ cycleFailed = FALSE
    /\ declined = FALSE
    /\ LET lzLists == {<< >>, <<<<1>>>>, <<<<1>>, <<2>>>>,
                       <<<<1>>, <<2>>, <<3>>, <<4>>>>}
           composeLists == {<< >>, <<<<0>>, <<1>>>>, <<<<0>>, <<1>>, <<2>>>>,
                            <<<<0>>, <<1>>, <<2>>, <<1>>, <<3>>, <<4>>>>}
           ndLists == {<< >>, <<<<1>>>>, <<<<1>>, "0xReceiverA">>,
                       <<<<1>>, "">>, <<MaxUint128, "0xReceiverA">>,
                       <<TwoPow128, "0xReceiverA">>,
                       <<<<2>>, "0xReceiverB", MaxUint128, "0xReceiverA">>}
           repeatArgs == [lz : {<< >>, <<<<1>>, <<2>>>>},
                          compose : {<< >>, <<<<0>>, <<1>>, <<2>>>>},
                          nd : {<< >>, <<<<1>>, "0xReceiverA">>}]
       IN  call \in
             [fn : {"buildOptions"}, done : {FALSE}, n : {0},
              first : [lz : lzLists, compose : composeLists, nd : ndLists],
              second : repeatArgs, out1 : {Failed("none", << >>)},
              out2 : {Failed("none", << >>)}]
             \cup
             [fn : {"getCurrentSrcEid"}, done : {FALSE},
              chainId : {1, 56, 137, 43114, 42161, 10, 250, 11155111, 97,
                         0, 5, 9999, 31337},
              out : {getCurrentSrcEid(0)}]
             \cup
             [fn : {"scanLink"}, done : {FALSE},
              srcEid : {30101, 39999, 40000, 40161, 49999, 50000},
              hash : {"0xabc", "0xdef"}, result : {NoResult},
              link : {<< >>}]
             \cup
             [fn : {"quoteSend", "sendTokens"}, done : {FALSE},
              srcEid : {30101, 40161, 30168, 30108}, code : {"0x", "0x60"},
              stage : {"called"}, reads : {0}, txs : {0}, error : {<< >>}]
             \cup
             [fn : {"getOFTConfig"}, done : {FALSE}, signerOk : BOOLEAN,
              codeRead : [ok : BOOLEAN, v : {"0x", "0x60"}],
              tokenOk : BOOLEAN, tokenDec : [ok : BOOLEAN, v : {2, 18}],
              adapterDec : [ok : BOOLEAN, v : {8}],
              approvalRead : [ok : BOOLEAN, v : BOOLEAN],
              out : {ConfigFailed(<< >>, << >>)}]
             \cup
             [fn : {"validateOFTAdapter"}, done : {FALSE},
              codeRead : [ok : BOOLEAN, v : {"0x", "0x60"}],
              signerOk : BOOLEAN, tokenOk : BOOLEAN,
              tokenCodeRead : [ok : BOOLEAN, v : {"0x", "0x60"}],
              probeOk : BOOLEAN,
              out : {[isValid |-> FALSE, error |-> "none"]}]
             \cup
             [fn : {"checkNetworkCompatibility"}, done : {FALSE},
              chainOk : BOOLEAN, chainId : {1, 97, 5},
              codeRead : [ok : BOOLEAN, v : {"0x", "0x60"}],
              recheckOk : BOOLEAN, signerOk : BOOLEAN, tokenOk : BOOLEAN,
              tokenCodeRead : [ok : BOOLEAN, v : {"0x", "0x60"}],
              probeOk : BOOLEAN,
              validation : {[isValid |-> FALSE, error |-> "none"]},
              out : {[threw |-> FALSE, isCompatible |-> FALSE,
                      error |-> "none", recommendations |-> 0]}]
             \cup
             [fn : {"checkOFTAdapterSupport"}, done : {FALSE},
              signerOk : BOOLEAN, decRead : [ok : BOOLEAN, v : {2, 6}],
              decimals : {2, 6}, amount : {A_one, A_milli},
              minimal : {"ok", "reverted", "failed"},
              actual : {"ok", "reverted", "failed"},
              out : {[isSupported |-> FALSE, error |-> "none",
                      recommendations |-> 0, probes |-> << >>]}]
             \cup
             [fn : {"TransferForm"}, done : {FALSE},
              wallet : [ok : BOOLEAN, eid : {30101, 30109, 30102}],
              mounting : {TRUE}, touched : {FALSE}, currentSrcEid : {0},
              srcEid : {30101}, dstEid : {30102}, oftAddress : {""},
              adapterValidation : {NoAdapter}]
             \cup
             [fn : {"useOFTClient"}, done : {FALSE}, client : {<< >>},
              isConnected : {FALSE}, loading : {FALSE}, error : {<< >>},
              address : {<< >>}, chainId : {<< >>}, connecting : {FALSE},
              outcome : {"none"}]
             \cup
             [fn : {"App"}, done : {FALSE}, transactionResult : {<< >>},
              error : {<< >>}, event : {<< >>}]
             \cup
             [fn : {"quoteSendTokenInfo"}, done : {FALSE},
              tokenOk : BOOLEAN, nameOk : BOOLEAN, symbolOk : BOOLEAN,
              decOk : BOOLEAN, codeRead : [ok : BOOLEAN, v : {"0x", "0x60"}],
              quoteOk : BOOLEAN,
              out : {[ok |-> FALSE, requested |-> FALSE,
                      tokenInfo |-> FALSE, error |-> << >>]}]
NextCalls ==
    \/ BuildOptionsCall
    \/ GetCurrentSrcEidCall
    \/ ScanLinkCall
    \/ EntryCheckCall
    \/ EntryRunCall
    \/ GetOFTConfigCall
    \/ ValidateOFTAdapterCall
    \/ CheckNetworkCompatibilityCall
    \/ CheckOFTAdapterSupportCall
    \/ QuoteSendCall
    \/ GetCurrentNetwork
    \/ HandleAdapterSelection
    \/ ClearAdapterSelection
    \/ HandleAddressChange
    \/ HandleDstEidChange
    \/ ConnectStart
    \/ ConnectSettle
    \/ DisconnectClick
    \/ AccountsChanged
    \/ AppHandleTransfer
    \/ AppHandleError
    \/ HandleCloseResult
    \/ HandleCloseError
SpecCalls == InitCalls /\ [][NextCalls]_vars

Reported(e) == \E i \in DOMAIN call.errors : call.errors[i] = e
TokenReadsOk == call.cfgRead.ok /\ call.balRead.ok /\ call.allowRead.ok

\* C5: validateTransactionParams never fails fast.  Whatever the other
\* checks found, the report has the entry of a check exactly when that
\* check fails: each of the five argument checks, the probe quote, and,
\* where the reads behind them succeed, the token balance, the allowance
\* and the native balance; no entry appears twice; an invalid recipient
\* with an insufficient token balance gives at least two distinct entries.
C5_NeverFailFast ==
    (call.fn = "validateTransactionParams" /\ call.done) =>
        /\ Reported(E_DstEid) <=> call.dstEid <= 0
        /\ Reported(E_Recipient) <=> ~RecipientWellFormed(call.to)
        /\ Reported(E_Amount) <=> call.amountUnits <= 0
        /\ Reported(E_MinAmount) <=> call.minAmountUnits > call.amountUnits
        /\ Reported(E_NativeFee) <=> call.nativeFee <= 0
        /\ Reported(E_DstUnsupported) <=> call.probe = "rejected"
        /\ Reported(E_ProbeUnavailable) <=> call.probe = "noSigner"
        /\ Reported(E_TokenUnread) <=> ~TokenReadsOk
        /\ TokenReadsOk =>
              /\ Reported(E_TokenBalance) <=>
                    call.balRead.v < call.amountUnits
              /\ Reported(E_Allowance) <=>
                    call.allowRead.v < call.amountUnits
        /\ Reported(E_NativeUnread) <=> ~call.nativeRead.ok
        /\ call.nativeRead.ok =>
              (Reported(E_NativeBalance) <=>
                  call.nativeRead.v < call.nativeFee)
        /\ Cardinality({call.errors[i] : i \in DOMAIN call.errors})
              = Len(call.errors)
        /\ (~RecipientWellFormed(call.to)
            /\ call.balRead.v < call.amountUnits) =>
              Cardinality({call.errors[i] : i \in DOMAIN call.errors}) >= 2
C5_Witness ==
    /\ call.fn = "validateTransactionParams"
    /\ call.done
    /\ ~RecipientWellFormed(call.to)
    /\ TokenReadsOk
    /\ call.balRead.v < call.amountUnits
    /\ Reported(E_Recipient)
    /\ Reported(E_TokenBalance)
    /\ Reported(E_DstEid)

\* C13: quoteSend and sendTokens called with a source endpoint id that is
\* not of the EVM family throw the non-EVM error as their first action:
\* no chain read has been made and none follows.
C13_RejectsNonEvmFirst ==
    (call.fn \in {"quoteSend", "sendTokens"}
     /\ call.srcEid \in {30168, 30108}) =>
        /\ call.reads = 0
        /\ call.stage \in {"called", "thrown"}
        /\ call.stage = "thrown" =>
              call.error = <<"non-EVM srcEid not supported">>
C13_Witness ==
    /\ call.fn = "sendTokens"
    /\ call.srcEid = 30168
    /\ call.stage = "thrown"

\* C15: getCurrentSrcEid returns the table value for each of the nine
\* configured chain ids and fails with the unsupported-network error
\* naming the chain id for every other chain id.
C15_SrcEidTable ==
    (call.fn = "getCurrentSrcEid" /\ call.done) =>
        LET c == call.chainId
            o == call.out
            Maps(id, eid) == c = id => (o.ok /\ o.eid = eid)
        IN  /\ Maps(1, 30101)
            /\ Maps(56, 30102)
            /\ Maps(137, 30109)
            /\ Maps(43114, 30106)
            /\ Maps(42161, 30110)
            /\ Maps(10, 30111)
            /\ Maps(250, 30112)
            /\ Maps(11155111, 40161)
            /\ Maps(97, 40102)
            /\ c \notin {1, 56, 137, 43114, 42161, 10, 250, 11155111, 97} =>
                  /\ ~o.ok
                  /\ o.error = E_UnsupportedNetwork
                  /\ o.named = c
C15_Witness ==
    /\ call.fn = "getCurrentSrcEid"
    /\ call.done
    /\ call.chainId = 9999
    /\ ~call.out.ok

FirstBuilt == call.fn = "buildOptions" /\ call.n >= 1

\* C16: buildOptions fails with the invalid-format error of the list, and
\* returns no blob, whenever the lzReceive list has odd length, the compose
\* list has a length that is not a multiple of 3, or the nativeDrop list
\* has odd length (the first such list in that order decides the error);
\* with every length in order it raises none of these errors.
C16_Arity ==
    FirstBuilt =>
        LET a == call.first
            o == call.out1
            lzOdd == Len(a.lz) % 2 # 0
            composeOff == Len(a.compose) % 3 # 0
            ndOdd == Len(a.nd) % 2 # 0
        IN  /\ (lzOdd \/ composeOff \/ ndOdd) =>
                  (~o.ok /\ o.blob = << >> /\ o.error \in {E_LzReceivePairs, E_ComposeTriplets,
                                 E_NativeDropPairs})
            /\ o.error = E_LzReceivePairs <=> lzOdd
            /\ o.error = E_ComposeTriplets <=> (~lzOdd /\ composeOff)
            /\ o.error = E_NativeDropPairs <=>
                  (~lzOdd /\ ~composeOff /\ ndOdd)
C16_Witness ==
    /\ FirstBuilt
    /\ Len(call.first.lz) = 2
    /\ Len(call.first.compose) = 2
    /\ call.out1.error = E_ComposeTriplets

\* C17: the blob buildOptions returns holds the lzReceive options in
\* input order, then the compose options in input order, then the
\* nativeDrop options in input order.
C17_OptionOrder ==
    (FirstBuilt /\ call.out1.ok) =>
        LET a == call.first
            b == call.out1.blob
            nl == Len(a.lz) \div 2
            nc == Len(a.compose) \div 3
            nn == Len(a.nd) \div 2
        IN  /\ Len(b) = nl + nc + nn
            /\ \A j \in 1..nl :
                  /\ b[j].type = "lzReceive"
                  /\ b[j].gas = DigitsValue(a.lz[2 * j - 1])
                  /\ b[j].value = DigitsValue(a.lz[2 * j])
            /\ \A j \in 1..nc :
                  /\ b[nl + j].type = "compose"
                  /\ b[nl + j].index = DigitsValue(a.compose[3 * j - 2])
                  /\ b[nl + j].gas = DigitsValue(a.compose[3 * j - 1])
                  /\ b[nl + j].value = DigitsValue(a.compose[3 * j])
            /\ \A j \in 1..nn :
                  /\ b[nl + nc + j].type = "nativeDrop"
                  /\ b[nl + nc + j].amount = a.nd[2 * j - 1]
                  /\ b[nl + nc + j].receiver = a.nd[2 * j]
C17_Witness ==
    /\ FirstBuilt
    /\ call.out1.ok
    /\ Len(call.first.lz) = 4
    /\ Len(call.first.compose) = 6
    /\ Len(call.first.nd) = 4

\* C18: with the list lengths in order and every pair complete, a
\* nativeDrop amount above 2^128 - 1 makes buildOptions fail with the
\* error that quotes 2^128 - 1 as the maximum, and amounts up to 2^128 - 1
\* are accepted.
C18_NativeDropLimit ==
    (FirstBuilt
     /\ Len(call.first.lz) % 2 = 0
     /\ Len(call.first.compose) % 3 = 0
     /\ Len(call.first.nd) % 2 = 0
     /\ \A j \in 1..(Len(call.first.nd) \div 2) :
           /\ call.first.nd[2 * j - 1] # << >>
           /\ call.first.nd[2 * j] # "") =>
        LET nd == call.first.nd
            o == call.out1
            over == \E j \in 1..(Len(nd) \div 2) :
                       DecGt(nd[2 * j - 1], DecPred(TwoPow128))
        IN  IF over
            THEN /\ ~o.ok
                 /\ o.error = E_NativeDropFailed
                 /\ o.max = DecPred(TwoPow128)
            ELSE o.ok
C18_Witness ==
    /\ FirstBuilt
    /\ call.first.nd = <<TwoPow128, "0xReceiverA">>
    /\ call.out1.error = E_NativeDropFailed

\* C19: the scan link of a TransferResult is {base}/tx/{txHash}, with the
\* testnet base exactly when the source endpoint id lies in
\* [40000, 50000) and the mainnet base otherwise; 39999 and 50000 give
\* mainnet, 40000 and 49999 give testnet.
C19_ScanLink ==
    (call.fn = "scanLink" /\ call.done) =>
        LET base == IF call.srcEid \in 40000..49999 THEN TestnetBase
                    ELSE MainnetBase
        IN  /\ call.link = <<base, "/tx/", call.hash>>
            /\ call.result.scanLink = <<base, "/tx/", call.result.txHash>>
            /\ call.srcEid \in {39999, 50000} => call.link[1] = MainnetBase
            /\ call.srcEid \in {40000, 49999} => call.link[1] = TestnetBase
C19_Witness ==
    /\ call.fn = "scanLink"
    /\ call.done
    /\ call.srcEid = 50000
    /\ call.link = <<MainnetBase, "/tx/", "0xabc">>

C24_DecimalsFallback ==
    (call.fn = "getOFTConfig" /\ call.done /\ call.signerOk
     /\ call.codeRead.ok /\ call.codeRead.v # "0x" /\ call.tokenOk) =>
        /\ call.out.ok
        /\ call.out.decimals =
              IF call.tokenDec.ok THEN call.tokenDec.v
              ELSE IF call.adapterDec.ok THEN call.adapterDec.v
              ELSE 6
        /\ call.out.approvalRequired =
              (call.approvalRead.ok /\ call.approvalRead.v)
C24_Witness ==
    /\ call.fn = "getOFTConfig"
    /\ call.done
    /\ call.out.ok
    /\ ~call.tokenDec.ok
    /\ call.adapterDec.ok
    /\ call.out.decimals = 8
    /\ ~call.approvalRead.ok

\* C25: when the adapter address has no code, getOFTConfig fails with the
\* contract-not-found error having read nothing but the code, and
\* quoteSend and sendTokens fail with that error without submitting a
\* transaction.
C25_ContractNotFound ==
    /\ (call.fn = "getOFTConfig" /\ call.done /\ call.signerOk
        /\ call.codeRead.ok /\ call.codeRead.v = "0x") =>
          /\ ~call.out.ok
          /\ call.out.error[Len(call.out.error)] = E_ContractNotFound
          /\ call.out.reads = <<"getCode">>
    /\ (call.fn \in {"quoteSend", "sendTokens"} /\ call.code = "0x") =>
          /\ call.txs = 0
          /\ call.stage # "returned"
          /\ (call.done /\ call.srcEid \in EvmEids) =>
                /\ call.stage = "thrown"
                /\ call.error[Len(call.error)] = E_ContractNotFound
C25_Witness ==
    /\ call.fn = "sendTokens"
    /\ call.code = "0x"
    /\ call.stage = "thrown"
    /\ call.reads = 1

\* C26 as stated: checkOFTAdapterSupport issues the minimal-amount probe
\* first and the actual-amount probe only after it succeeded; it reports
\* the destination as unsupported whenever the minimal probe fails, the
\* amount as unsupported when only the actual-amount probe fails, and
\* isSupported = true only when both probes succeed.
C26_ProbeClassification ==
    (call.fn = "checkOFTAdapterSupport" /\ call.done) =>
        LET o == call.out
        IN  /\ o.probes \in {<< >>, <<"minimal">>, <<"minimal", "actual">>}
            /\ Len(o.probes) = 2 => call.minimal = "ok"
            /\ (Len(o.probes) >= 1 /\ call.minimal # "ok") =>
                  (~o.isSupported /\ o.error = E_DstUnsupported)
            /\ (Len(o.probes) = 2 /\ call.actual # "ok") =>
                  /\ ~o.isSupported
                  /\ o.error \in {"Amount too small for this OFT adapter",
                                  "OFT adapter does not support this amount"}
            /\ o.isSupported =>
                  /\ o.probes = <<"minimal", "actual">>
                  /\ call.minimal = "ok"
                  /\ call.actual = "ok"

\* C26, amended: as above, except that a minimal probe that fails is
\* reported as an unsupported destination only when it failed with an
\* execution revert; any other failure of it is reported as a failed
\* adapter validation.  In every case isSupported is false.
C26_ProbeClassificationAmended ==
    (call.fn = "checkOFTAdapterSupport" /\ call.done) =>
        LET o == call.out
        IN  /\ o.probes \in {<< >>, <<"minimal">>, <<"minimal", "actual">>}
            /\ Len(o.probes) = 2 => call.minimal = "ok"
            /\ (Len(o.probes) >= 1 /\ call.minimal = "reverted") =>
                  (~o.isSupported /\ o.error = E_DstUnsupported)
            /\ (Len(o.probes) >= 1 /\ call.minimal = "failed") =>
                  /\ ~o.isSupported
                  /\ o.error = "OFT adapter validation failed"
            /\ (Len(o.probes) = 2 /\ call.actual # "ok") =>
                  /\ ~o.isSupported
                  /\ o.error \in {"Amount too small for this OFT adapter",
                                  "OFT adapter does not support this amount"}
            /\ o.isSupported <=>
                  /\ o.probes = <<"minimal", "actual">>
                  /\ call.minimal = "ok"
                  /\ call.actual = "ok"
C26_Witness ==
    /\ call.fn = "checkOFTAdapterSupport"
    /\ call.done
    /\ call.out.probes = <<"minimal">>
    /\ call.minimal = "failed"
    /\ call.out.error = "OFT adapter validation failed"

\* C27: validateOFTAdapter returns isValid = true exactly when the read of
\* the adapter's code returns code, token() is read and succeeds, and the
\* read of the token's code returns code; the outcome of the quoteSend
\* probe plays no part.
C27_ValidExactly ==
    (call.fn = "validateOFTAdapter" /\ call.done) =>
        /\ call.out.isValid <=>
              /\ call.codeRead.ok /\ call.codeRead.v # "0x"
              /\ call.signerOk /\ call.tokenOk
              /\ call.tokenCodeRead.ok /\ call.tokenCodeRead.v # "0x"
        /\ ~call.out.isValid => call.out.error # "none"
C27_Witness ==
    /\ call.fn = "validateOFTAdapter"
    /\ call.done
    /\ ~call.probeOk
    /\ call.out.isValid

\* C28: checkNetworkCompatibility never throws; it returns isCompatible =
\* false with an error and a non-empty list of recommendations when the
\* chain id is not in the endpoint table, when the adapter has no code, or
\* when validateOFTAdapter reports invalid, and it returns isCompatible =
\* true only if the chain is in the table, the adapter has code and
\* validateOFTAdapter reports valid.
C28_NeverThrows ==
    (call.fn = "checkNetworkCompatibility" /\ call.done) =>
        LET o == call.out
            supported ==
                call.chainId \in {1, 56, 137, 43114, 42161, 10, 250,
                                  11155111, 97}
        IN  /\ ~o.threw
            /\ o.recommendations > 0
            /\ (~supported \/ call.codeRead.v = "0x"
                \/ ~call.validation.isValid) =>
                  (~o.isCompatible /\ o.error # "none")
            /\ o.isCompatible =>
                  /\ supported
                  /\ call.codeRead.ok /\ call.codeRead.v # "0x"
                  /\ call.validation.isValid
C28_Witness ==
    /\ call.fn = "checkNetworkCompatibility"
    /\ call.done
    /\ call.chainId = 5
    /\ call.chainOk
    /\ ~call.out.isCompatible
    /\ call.out.error = E_UnsupportedNetwork

\* C31: in quoteSend a failed read of the token's name, symbol or decimals
\* is not fatal: the quote is requested whatever those reads gave, and
\* returned when the quote call succeeds, with tokenInfo absent; tokenInfo
\* is present only if token() and all three reads succeeded.
C31_TokenInfoBestEffort ==
    (call.fn = "quoteSendTokenInfo" /\ call.done) =>
        LET o == call.out
            readsOk == call.nameOk /\ call.symbolOk /\ call.decOk
            noCode == call.tokenOk /\ call.codeRead.ok
                      /\ call.codeRead.v = "0x"
        IN  /\ o.requested <=> ~noCode
            /\ o.ok <=> (o.requested /\ call.quoteOk)
            /\ o.tokenInfo => (o.ok /\ call.tokenOk /\ readsOk)
            /\ (o.ok /\ ~readsOk) => ~o.tokenInfo
            /\ (o.ok /\ call.tokenOk /\ readsOk) => o.tokenInfo
C31_Witness ==
    /\ call.fn = "quoteSendTokenInfo"
    /\ call.done
    /\ call.tokenOk
    /\ call.nameOk
    /\ ~call.symbolOk
    /\ call.out.ok
    /\ ~call.out.tokenInfo

\* C36: on mount, when the wallet's source endpoint id is the srcEid of a
\* known adapter, the form ends with that adapter selected: oftAddress and
\* dstEid are the adapter's and adapterValidation.isValid is true.
C36_AutoSelected ==
    (/\ call.fn = "TransferForm"
     /\ ~call.mounting
     /\ ~call.touched
     /\ call.wallet.ok) =>
        \A i \in DOMAIN ADAPTER_CONFIGS :
            ADAPTER_CONFIGS[i].srcEid = call.wallet.eid =>
                /\ call.oftAddress = ADAPTER_CONFIGS[i].address
                /\ call.dstEid = ADAPTER_CONFIGS[i].dstEid
                /\ call.adapterValidation.isValid

\* C37: whenever adapterValidation.isValid is true with a selectedAdapter,
\* that adapter's srcEid is the current source endpoint id and
\* transferData holds the adapter's address and dstEid.
C37_ValidSelectionConsistent ==
    (/\ call.fn = "TransferForm"
     /\ call.adapterValidation.isValid
     /\ call.adapterValidation.selectedAdapter # 0) =>
        LET a == ADAPTER_CONFIGS[call.adapterValidation.selectedAdapter]
        IN  /\ a.srcEid = call.currentSrcEid
            /\ call.oftAddress = a.address
            /\ call.dstEid = a.dstEid

\* C38: in the wallet-session hook isConnected implies that client,
\* address and chainId are all set; a disconnect leaves client, address,
\* chainId and error all null; an accountsChanged event with no account
\* disconnects and one with accounts changes the address alone.
C38_SessionConsistent ==
    [][(call.fn = "useOFTClient" /\ call'.fn = "useOFTClient") =>
          /\ call'.isConnected =>
                (call'.client # << >> /\ call'.address # << >>
                 /\ call'.chainId # << >>)
          /\ (call.isConnected /\ ~call'.isConnected) =>
                /\ call'.outcome = "disconnected"
                /\ call'.client = << >>
                /\ call'.address = << >>
                /\ call'.chainId = << >>
                /\ call'.error = << >>
          /\ call'.outcome = "accountsChanged" =>
                call' = [call EXCEPT !.address = call'.address,
                                     !.outcome = "accountsChanged"]]_vars
C38_Witness ==
    /\ call.fn = "useOFTClient"
    /\ call.outcome = "disconnected"
    /\ ~call.isConnected
    /\ call.address = << >>

\* C39: a connect that fails sets error and leaves client, isConnected,
\* address and chainId as they were; every connect ends with loading
\* false, and a successful one with error null.
C39_ConnectFrame ==
    [][(call.fn = "useOFTClient" /\ call.connecting /\ ~call'.connecting) =>
          /\ ~call'.loading
          /\ call'.outcome = "connected" =>
                (call'.error = << >> /\ call'.isConnected)
          /\ call'.outcome # "connected" =>
                /\ call'.error = <<call'.outcome>>
                /\ call'.client = call.client
                /\ call'.isConnected = call.isConnected
                /\ call'.address = call.address
                /\ call'.chainId = call.chainId]_vars
C39_Witness ==
    /\ call.fn = "useOFTClient"
    /\ call.outcome = "User rejected account access"
    /\ call.error # << >>
    /\ ~call.loading
    /\ ~call.isConnected

\* C40: in the App component the error banner and the transaction result
\* are never both set, and a newly reported outcome replaces the earlier
\* one of the other kind: after handleTransfer the result is the new one
\* and the error is null, after handleError the reverse.
C40_BannerOrResult ==
    [][(call.fn = "App" /\ call'.fn = "App") =>
          /\ call'.transactionResult = << >> \/ call'.error = << >>
          /\ (call' # call /\ call'.event[1] = "handleTransfer") =>
                /\ call'.transactionResult = <<call'.event[2]>>
                /\ call'.error = << >>
          /\ (call' # call /\ call'.event[1] = "handleError") =>
                /\ call'.error = <<call'.event[2]>>
                /\ call'.transactionResult = << >>]_vars
C40_Witness ==
    /\ call.fn = "App"
    /\ call.event = <<"handleError", "Transfer failed", TRUE>>
    /\ call.error = <<"Transfer failed">>
    /\ call.transactionResult = << >>

====
